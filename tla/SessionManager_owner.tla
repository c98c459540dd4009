------------------------ MODULE SessionManager_owner ------------------------
(***************************************************************************)
(* Every step keeps each tunnel address that was ever handed out with      *)
(* exactly one owner: the pool, a session or a task.                       *)
(***************************************************************************)
EXTENDS SessionManager_inv

(* A step that moves no address. *)
LEMMA OwnersStay ==
  ASSUME OwnerInv, LeakInv, UNCHANGED <<sessions, allocator>>,
         \A u \in Tasks, f \in Families : Held(u, f)' = Held(u, f)
  PROVE  OwnerInv' /\ LeakInv'
<1>1. sessions' = sessions /\ next_offset' = next_offset /\ released' = released
  BY DEF allocator
<1>2. \A f \in Families : \A o : InRange(f, o)' <=> InRange(f, o)
  BY <1>1 DEF InRange
<1>3. OwnerInv'
  BY <1>1, <1>2 DEF OwnerInv
<1>4. LeakInv'
  BY <1>1 DEF LeakInv
<1> QED
  BY <1>3, <1>4

(* A task that holds nothing takes the addresses of a session. *)
LEMMA OwnersTake ==
  ASSUME TypeOK, OwnerInv, LeakInv, UNCHANGED allocator, NEW t \in Tasks, NEW s \in SessionIds,
         \A f \in Families : Held(t, f) = 0,
         \A r \in SessionIds, f \in Families :
           sessions'[r][f] = IF r = s THEN 0 ELSE sessions[r][f],
         \A u \in Tasks, f \in Families :
           Held(u, f)' = IF u = t THEN sessions[s][f] ELSE Held(u, f)
  PROVE  OwnerInv' /\ LeakInv'
<1>1. next_offset' = next_offset /\ released' = released
  BY DEF allocator
<1>2. \A f \in Families : \A o : InRange(f, o)' <=> InRange(f, o)
  BY <1>1 DEF InRange
<1>9. LeakInv'
  <2> SUFFICES ASSUME NEW f \in Families, NEW o \in 2 .. next_offset'[f] - 1
               PROVE  \/ o \in released'[f]
                      \/ \E r \in SessionIds : sessions'[r][f] = o
                      \/ \E u \in Tasks : Held(u, f)' = o
    BY DEF LeakInv
  <2>1. CASE o \in released[f]
    BY <2>1, <1>1
  <2>2. ASSUME NEW r \in SessionIds, sessions[r][f] = o
        PROVE  (\E q \in SessionIds : sessions'[q][f] = o) \/ \E u \in Tasks : Held(u, f)' = o
    BY <2>2
  <2>3. ASSUME NEW u \in Tasks, Held(u, f) = o
        PROVE  \/ o \in released'[f]
               \/ \E r \in SessionIds : sessions'[r][f] = o
               \/ \E v \in Tasks : Held(v, f)' = o
    BY <2>3
  <2> QED
    BY <1>1, <2>1, <2>2, <2>3 DEF LeakInv
<1> SUFFICES ASSUME NEW f \in Families PROVE
      /\ next_offset'[f] >= 2
      /\ \A o \in released'[f] : InRange(f, o)'
      /\ \A r \in SessionIds : sessions'[r][f] # 0 =>
           /\ InRange(f, sessions[r][f])'
           /\ sessions'[r][f] \notin released'[f]
           /\ \A q \in SessionIds : q # r => sessions'[q][f] # sessions'[r][f]
           /\ \A u \in Tasks : Held(u, f)' # sessions'[r][f]
      /\ \A u \in Tasks : Held(u, f)' # 0 =>
           /\ InRange(f, Held(u, f))'
           /\ Held(u, f)' \notin released'[f]
           /\ \A v \in Tasks : v # u => Held(v, f)' # Held(u, f)'
  BY <1>9 DEF OwnerInv
<1>3. next_offset'[f] >= 2 /\ \A o \in released'[f] : InRange(f, o)'
  BY <1>1, <1>2 DEF OwnerInv
<1>4. ASSUME NEW r \in SessionIds, sessions'[r][f] # 0
      PROVE  /\ InRange(f, sessions[r][f])'
             /\ sessions'[r][f] \notin released'[f]
             /\ \A q \in SessionIds : q # r => sessions'[q][f] # sessions'[r][f]
             /\ \A u \in Tasks : Held(u, f)' # sessions'[r][f]
  <2>1. r # s /\ sessions'[r][f] = sessions[r][f]
    BY <1>4
  <2> QED
    BY <1>1, <1>2, <1>4, <2>1 DEF OwnerInv
<1>5. ASSUME NEW u \in Tasks, Held(u, f)' # 0
      PROVE  /\ InRange(f, Held(u, f))'
             /\ Held(u, f)' \notin released'[f]
             /\ \A v \in Tasks : v # u => Held(v, f)' # Held(u, f)'
  BY <1>1, <1>2, <1>5 DEF OwnerInv
<1> QED
  BY <1>3, <1>4, <1>5

(* A task puts the address it holds in one family back into the pool. *)
LEMMA OwnersRelease ==
  ASSUME OwnerInv, LeakInv, UNCHANGED <<sessions, next_offset>>, NEW t \in Tasks, NEW g \in Families,
         \A f \in Families : \A o \in released'[f] :
           o \in released[f] \/ (f = g /\ o = Held(t, f) /\ o # 0),
         \A f \in Families : released[f] \subseteq released'[f],
         Held(t, g) # 0 => Held(t, g) \in released'[g],
         \A u \in Tasks, f \in Families :
           Held(u, f)' = IF u = t /\ f = g THEN 0 ELSE Held(u, f)
  PROVE  OwnerInv' /\ LeakInv'
<1>1. \A f \in Families : \A o : InRange(f, o)' <=> InRange(f, o)
  BY DEF InRange
<1>9. LeakInv'
  <2> SUFFICES ASSUME NEW f \in Families, NEW o \in 2 .. next_offset'[f] - 1
               PROVE  \/ o \in released'[f]
                      \/ \E r \in SessionIds : sessions'[r][f] = o
                      \/ \E u \in Tasks : Held(u, f)' = o
    BY DEF LeakInv
  <2>1. CASE o \in released[f]
    BY <2>1
  <2>2. ASSUME NEW r \in SessionIds, sessions[r][f] = o
        PROVE  (\E q \in SessionIds : sessions'[q][f] = o) \/ \E u \in Tasks : Held(u, f)' = o
    BY <2>2
  <2>3. ASSUME NEW u \in Tasks, Held(u, f) = o
        PROVE  \/ o \in released'[f]
               \/ \E r \in SessionIds : sessions'[r][f] = o
               \/ \E v \in Tasks : Held(v, f)' = o
    BY <2>3
  <2> QED
    BY <2>1, <2>2, <2>3 DEF LeakInv
<1> SUFFICES ASSUME NEW f \in Families PROVE
      /\ next_offset'[f] >= 2
      /\ \A o \in released'[f] : InRange(f, o)'
      /\ \A r \in SessionIds : sessions'[r][f] # 0 =>
           /\ InRange(f, sessions[r][f])'
           /\ sessions'[r][f] \notin released'[f]
           /\ \A q \in SessionIds : q # r => sessions'[q][f] # sessions'[r][f]
           /\ \A u \in Tasks : Held(u, f)' # sessions'[r][f]
      /\ \A u \in Tasks : Held(u, f)' # 0 =>
           /\ InRange(f, Held(u, f))'
           /\ Held(u, f)' \notin released'[f]
           /\ \A v \in Tasks : v # u => Held(v, f)' # Held(u, f)'
  BY <1>9 DEF OwnerInv
<1>2. next_offset'[f] >= 2 /\ \A o \in released'[f] : InRange(f, o)'
  BY <1>1 DEF OwnerInv
<1>3. ASSUME NEW r \in SessionIds, sessions'[r][f] # 0
      PROVE  /\ InRange(f, sessions[r][f])'
             /\ sessions'[r][f] \notin released'[f]
             /\ \A q \in SessionIds : q # r => sessions'[q][f] # sessions'[r][f]
             /\ \A u \in Tasks : Held(u, f)' # sessions'[r][f]
  BY <1>1, <1>3 DEF OwnerInv
<1>4. ASSUME NEW u \in Tasks, Held(u, f)' # 0
      PROVE  /\ InRange(f, Held(u, f))'
             /\ Held(u, f)' \notin released'[f]
             /\ \A v \in Tasks : v # u => Held(v, f)' # Held(u, f)'
  <2>1. Held(u, f)' = Held(u, f) /\ ~ (u = t /\ f = g)
    BY <1>4
  <2> QED
    BY <1>1, <1>4, <2>1 DEF OwnerInv
<1> QED
  BY <1>2, <1>3, <1>4

(* A task gives the addresses it holds to a session. *)
LEMMA OwnersInsert ==
  ASSUME OwnerInv, LeakInv, UNCHANGED allocator, NEW t \in Tasks, NEW s \in SessionIds,
         \A f \in Families : sessions[s][f] = 0,
         \A r \in SessionIds, f \in Families :
           sessions'[r][f] = IF r = s THEN Held(t, f) ELSE sessions[r][f],
         \A u \in Tasks, f \in Families : Held(u, f)' = IF u = t THEN 0 ELSE Held(u, f)
  PROVE  OwnerInv' /\ LeakInv'
<1>1. next_offset' = next_offset /\ released' = released
  BY DEF allocator
<1>2. \A f \in Families : \A o : InRange(f, o)' <=> InRange(f, o)
  BY <1>1 DEF InRange
<1>9. LeakInv'
  <2> SUFFICES ASSUME NEW f \in Families, NEW o \in 2 .. next_offset'[f] - 1
               PROVE  \/ o \in released'[f]
                      \/ \E r \in SessionIds : sessions'[r][f] = o
                      \/ \E u \in Tasks : Held(u, f)' = o
    BY DEF LeakInv
  <2>1. CASE o \in released[f]
    BY <2>1, <1>1
  <2>2. ASSUME NEW r \in SessionIds, sessions[r][f] = o
        PROVE  (\E q \in SessionIds : sessions'[q][f] = o) \/ \E u \in Tasks : Held(u, f)' = o
    BY <2>2
  <2>3. ASSUME NEW u \in Tasks, Held(u, f) = o
        PROVE  \/ o \in released'[f]
               \/ \E r \in SessionIds : sessions'[r][f] = o
               \/ \E v \in Tasks : Held(v, f)' = o
    BY <2>3
  <2> QED
    BY <1>1, <2>1, <2>2, <2>3 DEF LeakInv
<1> SUFFICES ASSUME NEW f \in Families PROVE
      /\ next_offset'[f] >= 2
      /\ \A o \in released'[f] : InRange(f, o)'
      /\ \A r \in SessionIds : sessions'[r][f] # 0 =>
           /\ InRange(f, sessions[r][f])'
           /\ sessions'[r][f] \notin released'[f]
           /\ \A q \in SessionIds : q # r => sessions'[q][f] # sessions'[r][f]
           /\ \A u \in Tasks : Held(u, f)' # sessions'[r][f]
      /\ \A u \in Tasks : Held(u, f)' # 0 =>
           /\ InRange(f, Held(u, f))'
           /\ Held(u, f)' \notin released'[f]
           /\ \A v \in Tasks : v # u => Held(v, f)' # Held(u, f)'
  BY <1>9 DEF OwnerInv
<1>3. next_offset'[f] >= 2 /\ \A o \in released'[f] : InRange(f, o)'
  BY <1>1, <1>2 DEF OwnerInv
<1>4. ASSUME NEW r \in SessionIds, sessions'[r][f] # 0
      PROVE  /\ InRange(f, sessions[r][f])'
             /\ sessions'[r][f] \notin released'[f]
             /\ \A q \in SessionIds : q # r => sessions'[q][f] # sessions'[r][f]
             /\ \A u \in Tasks : Held(u, f)' # sessions'[r][f]
  <2>1. CASE r = s
    BY <1>1, <1>2, <1>4, <2>1 DEF OwnerInv
  <2>2. CASE r # s
    BY <1>1, <1>2, <1>4, <2>2 DEF OwnerInv
  <2> QED
    BY <2>1, <2>2
<1>5. ASSUME NEW u \in Tasks, Held(u, f)' # 0
      PROVE  /\ InRange(f, Held(u, f))'
             /\ Held(u, f)' \notin released'[f]
             /\ \A v \in Tasks : v # u => Held(v, f)' # Held(u, f)'
  BY <1>1, <1>2, <1>5 DEF OwnerInv
<1> QED
  BY <1>3, <1>4, <1>5

(* A task takes an address of one family from the pool. *)
LEMMA OwnersReuse ==
  ASSUME OwnerInv, LeakInv, UNCHANGED <<sessions, next_offset>>, NEW t \in Tasks, NEW g \in Families,
         NEW o \in released[g], o \in Nat, Held(t, g) = 0,
         \A f \in Families : \A x :
           x \in released'[f] <=> x \in released[f] /\ (f = g => x # o),
         \A u \in Tasks, f \in Families :
           Held(u, f)' = IF u = t /\ f = g THEN o ELSE Held(u, f)
  PROVE  OwnerInv' /\ LeakInv'
<1>1. \A f \in Families : \A x : InRange(f, x)' <=> InRange(f, x)
  BY DEF InRange
<1>2. InRange(g, o) /\ o # 0
  BY DEF OwnerInv, InRange
<1>3. /\ \A r \in SessionIds : sessions[r][g] # o
      /\ \A u \in Tasks : Held(u, g) # o
  BY <1>2 DEF OwnerInv
<1>9. LeakInv'
  <2> SUFFICES ASSUME NEW f \in Families, NEW a \in 2 .. next_offset'[f] - 1
               PROVE  \/ a \in released'[f]
                      \/ \E r \in SessionIds : sessions'[r][f] = a
                      \/ \E u \in Tasks : Held(u, f)' = a
    BY DEF LeakInv
  <2>1. CASE a \in released[f]
    BY <2>1
  <2>2. ASSUME NEW r \in SessionIds, sessions[r][f] = a
        PROVE  (\E q \in SessionIds : sessions'[q][f] = a) \/ \E u \in Tasks : Held(u, f)' = a
    BY <2>2
  <2>3. ASSUME NEW u \in Tasks, Held(u, f) = a
        PROVE  \/ a \in released'[f]
               \/ \E r \in SessionIds : sessions'[r][f] = a
               \/ \E v \in Tasks : Held(v, f)' = a
    BY <2>3
  <2> QED
    BY <2>1, <2>2, <2>3 DEF LeakInv
<1> SUFFICES ASSUME NEW f \in Families PROVE
      /\ next_offset'[f] >= 2
      /\ \A x \in released'[f] : InRange(f, x)'
      /\ \A r \in SessionIds : sessions'[r][f] # 0 =>
           /\ InRange(f, sessions[r][f])'
           /\ sessions'[r][f] \notin released'[f]
           /\ \A q \in SessionIds : q # r => sessions'[q][f] # sessions'[r][f]
           /\ \A u \in Tasks : Held(u, f)' # sessions'[r][f]
      /\ \A u \in Tasks : Held(u, f)' # 0 =>
           /\ InRange(f, Held(u, f))'
           /\ Held(u, f)' \notin released'[f]
           /\ \A v \in Tasks : v # u => Held(v, f)' # Held(u, f)'
  BY <1>9 DEF OwnerInv
<1>4. next_offset'[f] >= 2 /\ \A x \in released'[f] : InRange(f, x)'
  BY <1>1 DEF OwnerInv
<1>5. ASSUME NEW r \in SessionIds, sessions'[r][f] # 0
      PROVE  /\ InRange(f, sessions[r][f])'
             /\ sessions'[r][f] \notin released'[f]
             /\ \A q \in SessionIds : q # r => sessions'[q][f] # sessions'[r][f]
             /\ \A u \in Tasks : Held(u, f)' # sessions'[r][f]
  BY <1>1, <1>3, <1>5 DEF OwnerInv
<1>6. ASSUME NEW u \in Tasks, Held(u, f)' # 0
      PROVE  /\ InRange(f, Held(u, f))'
             /\ Held(u, f)' \notin released'[f]
             /\ \A v \in Tasks : v # u => Held(v, f)' # Held(u, f)'
  <2>1. CASE u = t /\ f = g
    BY <1>1, <1>2, <1>3, <2>1
  <2>2. CASE ~ (u = t /\ f = g)
    BY <1>1, <1>3, <1>6, <2>2 DEF OwnerInv
  <2> QED
    BY <2>1, <2>2
<1> QED
  BY <1>4, <1>5, <1>6

(* release drops nothing from the pool, and ignores no address in use. *)
LEMMA ReleaseKeeps ==
  ASSUME TypeOK, OwnerInv, NEW t \in Tasks, NEW g \in Families, release(g, Held(t, g))
  PROVE  /\ \A f \in Families : released[f] \subseteq released'[f]
         /\ Held(t, g) # 0 => Held(t, g) \in released'[g]
<1> DEFINE o == Held(t, g)
<1>1. \A f \in Families : released'[f] =
        IF f = g THEN released[f] \cup {x \in {o} : 2 <= x /\ x <= max_offset[g]} ELSE released[f]
  BY ZenonT(30) DEF release, TypeOK
<1>2. o # 0 => o \in {x \in {o} : 2 <= x /\ x <= max_offset[g]}
  BY DEF OwnerInv, InRange
<1> QED
  BY Zenon, <1>1, <1>2

LEMMA OwnerStep ==
  ASSUME TypeOK, PcInv, WholeInv, OwnerInv, LeakInv, AbsentInv, [Next]_vars
  PROVE  OwnerInv' /\ LeakInv'
<1>1. ASSUME NEW s \in SessionIds, StartCreate(s) PROVE OwnerInv' /\ LeakInv'
  <2>1. \A u \in Tasks, f \in Families : Held(u, f)' = Held(u, f)
    BY <1>1, Typed DEF StartCreate, Goto, table, Held, WholeInv, TypeOK
  <2> QED
    BY <1>1, <2>1, OwnersStay DEF StartCreate, Goto, table
<1>2. ASSUME NEW t \in Tasks, NEW S \in SUBSET SessionIds, StartRemove(t, S) PROVE OwnerInv' /\ LeakInv'
  <2>1. \A u \in Tasks, f \in Families : Held(u, f)' = Held(u, f)
    BY <1>2, Typed DEF StartRemove, table, Held, WholeInv, TypeOK
  <2> QED
    BY <1>2, <2>1, OwnersStay DEF StartRemove, table
<1>3. ASSUME NEW t \in Tasks, NEW s \in todo[t], TakeToRemove(t, s) PROVE OwnerInv' /\ LeakInv'
  <2>1. s \in SessionIds
    BY Typed
  <2>2. CASE s \in Live
    <3>1. /\ sessions' = [sessions EXCEPT ![s] = NoAddr]
          /\ addr' = [addr EXCEPT ![t] = sessions[s]]
          /\ pc[t] = "idle"
          /\ pc' = [pc EXCEPT ![t] = "uncount"]
      BY <1>3, <2>2 DEF TakeToRemove, Goto
    <3>2. sessions[s] # NoAddr
      BY <2>2 DEF Live
    <3>3. \A f \in Families : Held(t, f) = 0
      BY <3>1 DEF WholeInv, Held
    <3>4. \A u \in Tasks, f \in Families :
            Held(u, f)' = IF u = t THEN sessions[s][f] ELSE Held(u, f)
      BY <2>1, <3>1, TakeEffect DEF Held, TypeOK
    <3>5. \A r \in SessionIds, f \in Families :
            sessions'[r][f] = IF r = s THEN 0 ELSE sessions[r][f]
      BY ZenonT(30), <2>1, <3>1, TakeEffect
    <3>6. UNCHANGED allocator
      BY <1>3 DEF TakeToRemove
    <3> QED
      BY <2>1, <3>3, <3>4, <3>5, <3>6, OwnersTake
  <2>3. CASE s \notin Live
    BY <1>3, <2>3, OwnersStay DEF TakeToRemove, Held
  <2> QED
    BY <2>2, <2>3
<1>4. ASSUME NEW t \in Tasks, TakeToReplace(t) PROVE OwnerInv' /\ LeakInv'
  <2>1. CASE session_id \in Live
    <3>1. /\ sessions' = [sessions EXCEPT ![session_id] = NoAddr]
          /\ addr' = [addr EXCEPT ![t] = sessions[session_id]]
          /\ pc[t] = "find"
          /\ pc' = [pc EXCEPT ![t] = "unmap"]
      BY <1>4, <2>1 DEF TakeToReplace, Goto
    <3>2. session_id \in SessionIds /\ sessions[session_id] # NoAddr
      BY <2>1 DEF Live
    <3>3. \A f \in Families : Held(t, f) = 0
      BY <3>1 DEF WholeInv, Held
    <3>4. \A u \in Tasks, f \in Families :
            Held(u, f)' = IF u = t THEN sessions[session_id][f] ELSE Held(u, f)
      BY <3>1, <3>2, TakeEffect DEF Held, TypeOK
    <3>5. \A r \in SessionIds, f \in Families :
            sessions'[r][f] = IF r = session_id THEN 0 ELSE sessions[r][f]
      BY ZenonT(30), <3>1, <3>2, TakeEffect
    <3>6. UNCHANGED allocator
      BY <1>4 DEF TakeToReplace
    <3> QED
      BY <3>2, <3>3, <3>4, <3>5, <3>6, OwnersTake
  <2>2. CASE session_id \notin Live
    <3>1. pc[t] = "find" /\ pc' = [pc EXCEPT ![t] = "reserve"] /\ UNCHANGED <<sessions, addr>>
      BY <1>4, <2>2 DEF TakeToReplace, Goto
    <3>2. \A u \in Tasks, f \in Families : Held(u, f)' = Held(u, f)
      BY <3>1 DEF Held, TypeOK
    <3> QED
      BY <1>4, <3>1, <3>2, OwnersStay DEF TakeToReplace
  <2> QED
    BY <2>1, <2>2
<1>5. ASSUME NEW t \in Tasks, Uncount(t) PROVE OwnerInv' /\ LeakInv'
  <2>1. \A u \in Tasks, f \in Families : Held(u, f)' = Held(u, f)
    BY <1>5, Typed DEF Uncount, Goto, table, locals, Held, WholeInv, TypeOK
  <2> QED
    BY <1>5, <2>1, OwnersStay DEF Uncount, Goto, table, locals
<1>6. ASSUME NEW t \in Tasks, Unmap(t) PROVE OwnerInv' /\ LeakInv'
  <2>1. \A u \in Tasks, f \in Families : Held(u, f)' = Held(u, f)
    BY <1>6, Typed DEF Unmap, Goto, locals, Held, WholeInv, TypeOK
  <2> QED
    BY <1>6, <2>1, OwnersStay DEF Unmap, Goto, locals
<1>7. ASSUME NEW t \in Tasks, Release(t) PROVE OwnerInv' /\ LeakInv'
  <2>1. addr[t][fam[t]] \in Nat /\ fam[t] \in Families
    BY Typed
  <2>2. \A u \in Tasks, f \in Families :
          addr'[u][f] = IF u = t /\ f = fam[t] THEN 0 ELSE addr[u][f]
    <3>1. addr' = [addr EXCEPT ![t][fam[t]] = 0]
      BY <1>7 DEF Release
    <3>2. addr \in [Tasks -> [Families -> Nat]]
      BY DEF TypeOK, Addr
    <3> QED
      BY <2>1, <3>2, <3>1
  <2>3. \A u \in Tasks, f \in Families :
          Held(u, f)' = IF u = t /\ f = fam[t] THEN 0 ELSE Held(u, f)
    BY <1>7, <2>2 DEF Release, NextFamily, Goto, Held, TypeOK
  <2>4. Held(t, fam[t]) = addr[t][fam[t]]
    BY <1>7 DEF Release, Held
  <2>5. \A f \in Families : \A o \in released'[f] :
          o \in released[f] \/ (f = fam[t] /\ o = Held(t, f) /\ o # 0)
    <3>1. \A f \in Families : released'[f] =
            IF f = fam[t]
            THEN released[f] \cup {x \in {addr[t][f]} : 2 <= x /\ x <= max_offset[f]}
            ELSE released[f]
      BY ZenonT(30), <1>7, <2>1 DEF Release, release, TypeOK
    <3>2. \A o \in {x \in {addr[t][fam[t]]} : 2 <= x /\ x <= max_offset[fam[t]]} :
            o = Held(t, fam[t]) /\ o # 0
      BY <2>1, <2>4
    <3> QED
      BY ZenonT(30), <3>1, <3>2
  <2>6. /\ \A f \in Families : released[f] \subseteq released'[f]
        /\ Held(t, fam[t]) # 0 => Held(t, fam[t]) \in released'[fam[t]]
    BY <1>7, <2>1, <2>4, ReleaseKeeps DEF Release
  <2> QED
    BY <1>7, <2>1, <2>3, <2>5, <2>6, OwnersRelease DEF Release, table
<1>8. ASSUME NEW t \in Tasks, Removed(t) PROVE OwnerInv' /\ LeakInv'
  <2>1. \A u \in Tasks, f \in Families : Held(u, f)' = Held(u, f)
    BY <1>8, Typed DEF Removed, Goto, table, locals, Held, WholeInv, TypeOK
  <2> QED
    BY <1>8, <2>1, OwnersStay DEF Removed, Goto, table, locals
<1>9. ASSUME NEW t \in Tasks, Reserve(t) PROVE OwnerInv' /\ LeakInv'
  <2>1. \A u \in Tasks, f \in Families : Held(u, f)' = Held(u, f)
    BY <1>9, Typed DEF Reserve, Goto, table, locals, Held, WholeInv, TypeOK
  <2> QED
    BY <1>9, <2>1, OwnersStay DEF Reserve, Goto, table, locals
<1>10. ASSUME NEW t \in Tasks, Reject(t) PROVE OwnerInv' /\ LeakInv'
  <2>1. \A u \in Tasks, f \in Families : Held(u, f)' = Held(u, f)
    BY <1>10, Typed DEF Reject, Goto, table, Held, WholeInv, TypeOK
  <2> QED
    BY <1>10, <2>1, OwnersStay DEF Reject, Goto, table
<1>11. ASSUME NEW t \in Tasks, Allocate(t) PROVE OwnerInv' /\ LeakInv'
  <2> PICK o \in released[fam[t]] \cup {next_offset[fam[t]]} :
        allocate(fam[t], o) /\ addr' = [addr EXCEPT ![t][fam[t]] = o]
    BY ZenonT(30), <1>11 DEF Allocate
  <2>1. o \in Nat /\ fam[t] \in Families
    BY Typed
  <2>2. Held(t, fam[t]) = 0
    <3>1. pc[t] = "allocate" /\ fam[t] \in {"v4", "v6"}
      BY <1>11, Typed DEF Allocate
    <3> QED
      BY <2>1, <3>1 DEF WholeInv, Held
  <2>3. \A u \in Tasks, f \in Families :
          addr'[u][f] = IF u = t /\ f = fam[t] THEN o ELSE addr[u][f]
    <3>2. addr \in [Tasks -> [Families -> Nat]]
      BY DEF TypeOK, Addr
    <3> QED
      BY <2>1, <3>2
  <2>4. \A u \in Tasks, f \in Families :
          Held(u, f)' = IF u = t /\ f = fam[t] THEN o ELSE Held(u, f)
    BY <1>11, <2>3 DEF Allocate, NextFamily, Goto, Held, TypeOK
  <2>5. CASE o \in released[fam[t]] /\ UNCHANGED next_offset
             /\ released' = [released EXCEPT ![fam[t]] = released[fam[t]] \ {o}]
    <3>1. \A f \in Families : released'[f] =
            IF f = fam[t] THEN released[f] \ {o} ELSE released[f]
      BY ZenonT(30), <2>5 DEF TypeOK
    <3>2. \A f \in Families : \A x :
            x \in released'[f] <=> x \in released[f] /\ (f = fam[t] => x # o)
      BY Zenon, <3>1
    <3>3. UNCHANGED <<sessions, next_offset>>
      BY <1>11, <2>5 DEF Allocate, table
    <3> QED
      BY <2>1, <2>2, <2>4, <2>5, <3>2, <3>3, OwnersReuse
  <2>6. CASE o = next_offset[fam[t]] /\ o <= max_offset[fam[t]] /\ UNCHANGED released
             /\ next_offset' = [next_offset EXCEPT ![fam[t]] = o + 1]
    <3>1. \A f \in Families : next_offset'[f] =
            IF f = fam[t] THEN next_offset[f] + 1 ELSE next_offset[f]
      BY <2>6 DEF TypeOK
    <3>2. \A f \in Families : \A x \in Nat : InRange(f, x) => InRange(f, x)'
      BY <3>1, Typed DEF InRange
    <3>3. \A f \in Families : f = fam[t] => InRange(f, o)' /\ ~ InRange(f, o)
      <4>1. \A f \in Families : f = fam[t] => next_offset[f] >= 2 /\ next_offset'[f] = o + 1
        BY <2>6, <3>1 DEF OwnerInv
      <4> QED
        BY <2>1, <2>6, <4>1 DEF InRange
    <3>4. UNCHANGED sessions
      BY <1>11 DEF Allocate, table
    <3>5. \A f \in Families : \A u \in Tasks : Held(u, f) \in Nat
      BY Typed DEF Held
    <3>6. \A f \in Families : next_offset'[f] >= 2
      BY <3>1, Typed DEF OwnerInv
    <3>7. OwnerInv'
      BY <2>1, <2>4, <2>6, <3>2, <3>3, <3>4, <3>5, <3>6, Typed DEF OwnerInv
    <3>8. ASSUME NEW f \in Families, NEW x \in 2 .. next_offset'[f] - 1
          PROVE  \/ x \in released'[f]
                 \/ \E r \in SessionIds : sessions'[r][f] = x
                 \/ \E u \in Tasks : Held(u, f)' = x
      <4>1. CASE f = fam[t] /\ x = o
        BY <2>4, <4>1
      <4>2. CASE ~ (f = fam[t] /\ x = o)
        <5>1. x \in 2 .. next_offset[f] - 1
          BY <2>6, <3>1, <4>2, Typed
        <5>2. ASSUME NEW u \in Tasks, Held(u, f) = x PROVE Held(u, f)' = x
          BY <2>2, <2>4, <5>1, <5>2
        <5> QED
          BY <2>6, <3>4, <5>1, <5>2 DEF LeakInv
      <4> QED
        BY <4>1, <4>2
    <3> QED
      BY <3>7, <3>8 DEF LeakInv
  <2> QED
    BY <2>5, <2>6 DEF allocate
<1>12. ASSUME NEW t \in Tasks, AllocateFails(t) PROVE OwnerInv' /\ LeakInv'
  <2>1. \A u \in Tasks, f \in Families : Held(u, f)' = Held(u, f)
    BY <1>12, Typed DEF AllocateFails, Goto, table, locals, Held, WholeInv, TypeOK
  <2> QED
    BY <1>12, <2>1, OwnersStay DEF AllocateFails, Goto, table, locals
<1>13. ASSUME NEW t \in Tasks, GiveBack(t) PROVE OwnerInv' /\ LeakInv'
  <2>1. "v4" \in Families /\ addr[t]["v4"] \in Nat
    BY FamilyFacts, Typed
  <2>2. \A u \in Tasks, f \in Families :
          Held(u, f)' = IF u = t /\ f = "v4" THEN 0 ELSE Held(u, f)
    <3>1. \A u \in Tasks : addr'[u] = (IF u = t THEN NoAddr ELSE addr[u])
                           /\ pc'[u] = (IF u = t THEN "reject" ELSE pc[u])
      BY <1>13 DEF GiveBack, Goto, TypeOK
    <3>2. \A f \in Families : f # "v4" => Held(t, f) = 0
      BY <1>13, FamilyFacts DEF GiveBack, WholeInv, Held
    <3> QED
      BY <3>1, <3>2, NoAddrFacts DEF Held
  <2>3. Held(t, "v4") = addr[t]["v4"]
    BY <1>13 DEF GiveBack, Held
  <2>4. \A f \in Families : \A o \in released'[f] :
          o \in released[f] \/ (f = "v4" /\ o = Held(t, f) /\ o # 0)
    <3>1. \A f \in Families : released'[f] =
            IF f = "v4"
            THEN released[f] \cup {x \in {addr[t][f]} : 2 <= x /\ x <= max_offset[f]}
            ELSE released[f]
      BY ZenonT(30), <1>13, <2>1 DEF GiveBack, release, TypeOK
    <3>2. \A o \in {x \in {addr[t]["v4"]} : 2 <= x /\ x <= max_offset["v4"]} :
            o = Held(t, "v4") /\ o # 0
      BY <2>1, <2>3
    <3> QED
      BY ZenonT(30), <3>1, <3>2
  <2>5. /\ \A f \in Families : released[f] \subseteq released'[f]
        /\ Held(t, "v4") # 0 => Held(t, "v4") \in released'["v4"]
    BY <1>13, <2>1, <2>3, ReleaseKeeps DEF GiveBack
  <2> QED
    BY <1>13, <2>1, <2>2, <2>4, <2>5, OwnersRelease DEF GiveBack, table
<1>14. ASSUME NEW t \in Tasks, Insert(t) PROVE OwnerInv' /\ LeakInv'
  <2>1. session_id \in SessionIds
    BY <1>14 DEF Insert, PcInv, TypeOK
  <2>2. \A r \in SessionIds, f \in Families :
          sessions'[r][f] = IF r = session_id THEN Held(t, f) ELSE sessions[r][f]
    BY <1>14, <2>1 DEF Insert, Held, TypeOK
  <2>3. \A u \in Tasks : pc'[u] = IF u = t THEN "map" ELSE pc[u]
    BY <1>14 DEF Insert, Goto, TypeOK
  <2>4. \A u \in Tasks, f \in Families : Held(u, f)' = IF u = t THEN 0 ELSE Held(u, f)
    BY <1>14, <2>3 DEF Insert, locals, Held
  <2>5. UNCHANGED allocator
    BY <1>14 DEF Insert
  <2>6. \A f \in Families : sessions[session_id][f] = 0
    <3>1. t = Control
      BY <1>14 DEF Insert, PcInv
    <3>2. sessions[session_id] = NoAddr
      BY <1>14, <2>1, <3>1, TaskFacts DEF Insert, AbsentInv, Live
    <3> QED
      BY <3>2, NoAddrFacts
  <2> QED
    BY <2>1, <2>2, <2>4, <2>5, <2>6, OwnersInsert
<1>15. ASSUME NEW t \in Tasks, Map(t) PROVE OwnerInv' /\ LeakInv'
  <2>1. pc'[t] \in {"map", "created"} /\ \A u \in Tasks : u # t => pc'[u] = pc[u]
    BY <1>15 DEF Map, NextFamily, Goto, TypeOK
  <2>2. \A u \in Tasks, f \in Families : Held(u, f)' = Held(u, f)
    BY <1>15, <2>1 DEF Map, locals, Held
  <2> QED
    BY <1>15, <2>2, OwnersStay DEF Map
<1>16. ASSUME NEW t \in Tasks, Created(t) PROVE OwnerInv' /\ LeakInv'
  <2>1. \A u \in Tasks, f \in Families : Held(u, f)' = Held(u, f)
    BY <1>16, NoAddrFacts DEF Created, Goto, Held, TypeOK
  <2> QED
    BY <1>16, <2>1, OwnersStay DEF Created, table
<1>17. CASE UNCHANGED vars
  BY <1>17, OwnersStay DEF vars, allocator, Held
<1> QED
  BY <1>1, <1>2, <1>3, <1>4, <1>5, <1>6, <1>7, <1>8, <1>9, <1>10, <1>11, <1>12, <1>13,
     <1>14, <1>15, <1>16, <1>17 DEF Next
=============================================================================
