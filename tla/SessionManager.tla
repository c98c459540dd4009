--------------------------- MODULE SessionManager ---------------------------
(***************************************************************************)
(* The server's session table, hpn-server/src/session_manager.rs, and the  *)
(* sessions_active gauge its lifecycle callback maintains (server.rs).     *)
(*                                                                         *)
(* One task, the control loop, creates sessions; the cleanup task, the     *)
(* admin API and the control loop itself remove them, concurrently.  The   *)
(* table has no lock of its own: sessions, ip_to_session, the allocator,   *)
(* session_count and the gauge are each atomic, and the functions below    *)
(* touch them one after the other.  Every such access is a step here, in   *)
(* the order of the code; pc[t] names the next one.                        *)
(*                                                                         *)
(* An address is its offset in the subnet, and 0 stands for none: the      *)
(* allocators hand out offsets from 2 to max_offset.  The IPv4 and the     *)
(* IPv6 allocator and map behave alike and are indexed by the family.      *)
(***************************************************************************)
EXTENDS Integers, FiniteSets

CONSTANTS SessionIds,    \* identifiers a handshake may draw
          NoSession,     \* no identifier
          Control,       \* the task that creates sessions
          Removers,      \* the other tasks that remove sessions
          dual_stack,    \* whether an IPv6 allocator is configured
          max_offset,    \* last usable offset of each family's subnet
          max_sessions,
          MaxCreates     \* bound: sessions the control loop tries to create

ASSUME IdsAssumption == NoSession \notin SessionIds
ASSUME TasksAssumption == Control \notin Removers /\ IsFiniteSet(Removers)
ASSUME DualStackAssumption == dual_stack \in BOOLEAN
ASSUME MaxOffsetAssumption == max_offset \in [{"v4", "v6"} -> Nat]
ASSUME LimitsAssumption == max_sessions \in Nat /\ MaxCreates \in Nat

Tasks    == Removers \cup {Control}
Families == IF dual_stack THEN {"v4", "v6"} ELSE {"v4"}
Last     == IF dual_stack THEN "v6" ELSE "v4"

NoAddr == [f \in Families |-> 0]
Addr   == [Families -> Nat]

VARIABLES
  sessions,       \* [SessionIds -> Addr]: NoAddr when the table has no such session
  ip_to_session,  \* [Families -> SUBSET [ip, session]]: at most one pair per ip
  next_offset,    \* [Families -> Nat]: next address never handed out
  released,       \* [Families -> SUBSET Nat]: addresses to reuse
  session_count,  \* the atomic counter
  gauge,          \* the sessions_active metric
  pc,             \* [Tasks -> label]: the next access of the task
  session_id,     \* session the control loop is creating, or NoSession
  addr,           \* [Tasks -> Addr]: local tunnel addresses
  fam,            \* [Tasks -> Families]: the family the task is at
  todo,           \* [Tasks -> SUBSET SessionIds]: sessions still to remove
  creates         \* sessions the control loop has tried to create

vars == <<sessions, ip_to_session, next_offset, released, session_count, gauge,
          pc, session_id, addr, fam, todo, creates>>

table     == <<sessions, ip_to_session>>
allocator == <<next_offset, released>>
counters  == <<session_count, gauge>>
locals    == <<session_id, addr, todo, creates>>

Labels == {"idle", "find", "uncount", "unmap", "release", "removed",
           "reserve", "reject", "allocate", "giveback", "insert", "map", "created"}

Live == {s \in SessionIds : sessions[s] # NoAddr}

(* Task t is inside create_session_dual_stack_with_level. *)
InCreate(t) == t = Control /\ session_id # NoSession

(* The same had the subtraction not saturated. *)
DecrementBelowZero(n) == n - 1

(* saturating_sub(1) of the session counter and of the gauge. *)
Decrement(n) == IF n > 0 THEN n - 1 ELSE 0

Goto(t, label) == pc' = [pc EXCEPT ![t] = label]

(* The next family at the same point, or the first one at the next point. *)
NextFamily(t, again, done) ==
  IF fam[t] = Last
  THEN Goto(t, done) /\ fam' = [fam EXCEPT ![t] = "v4"]
  ELSE Goto(t, again) /\ fam' = [fam EXCEPT ![t] = "v6"]

-----------------------------------------------------------------------------
Init ==
  /\ sessions = [s \in SessionIds |-> NoAddr]
  /\ ip_to_session = [f \in Families |-> {}]
  /\ next_offset = [f \in Families |-> 2]
  /\ released = [f \in Families |-> {}]
  /\ session_count = 0
  /\ gauge = 0
  /\ pc = [t \in Tasks |-> "idle"]
  /\ session_id = NoSession
  /\ addr = [t \in Tasks |-> NoAddr]
  /\ fam = [t \in Tasks |-> "v4"]
  /\ todo = [t \in Tasks |-> {}]
  /\ creates = 0

(* A call of remove_session (admin API, Close, failed handshake: one session)
   or of cleanup_expired (the expired ones, collected before the first is
   removed).                                                               *)
StartRemove(t, S) ==
  /\ pc[t] = "idle"
  /\ todo[t] = {}
  /\ S # {}
  /\ todo' = [todo EXCEPT ![t] = S]
  /\ UNCHANGED <<table, allocator, counters, pc, session_id, addr, fam, creates>>

(* remove_session had it emitted Removed for a session it did not find. *)
TakeOrEmit(t, s) ==
  /\ pc[t] = "idle"
  /\ todo' = [todo EXCEPT ![t] = @ \ {s}]
  /\ \/ /\ s \in Live
        /\ sessions' = [sessions EXCEPT ![s] = NoAddr]
        /\ addr' = [addr EXCEPT ![t] = sessions[s]]
        /\ Goto(t, "uncount")
     \/ /\ s \notin Live
        /\ Goto(t, "removed")
        /\ UNCHANGED <<sessions, addr>>
  /\ UNCHANGED <<ip_to_session, allocator, counters, session_id, fam, creates>>

(* remove_session: take the session out of the table, if it is still there. *)
TakeToRemove(t, s) ==
  /\ pc[t] = "idle"
  /\ todo' = [todo EXCEPT ![t] = @ \ {s}]
  /\ \/ /\ s \in Live
        /\ sessions' = [sessions EXCEPT ![s] = NoAddr]
        /\ addr' = [addr EXCEPT ![t] = sessions[s]]
        /\ Goto(t, "uncount")
     \/ /\ s \notin Live
        /\ UNCHANGED <<sessions, addr, pc>>
  /\ UNCHANGED <<ip_to_session, allocator, counters, session_id, fam, creates>>

(* A handshake calls create_session_dual_stack_with_level. *)
StartCreate(s) ==
  /\ pc[Control] = "idle"
  /\ todo[Control] = {}
  /\ creates < MaxCreates
  /\ creates' = creates + 1
  /\ session_id' = s
  /\ Goto(Control, "find")
  /\ UNCHANGED <<table, allocator, counters, addr, fam, todo>>

(* create: a session of the same identifier is taken out of the table first. *)
TakeToReplace(t) ==
  /\ pc[t] = "find"
  /\ \/ /\ session_id \in Live
        /\ sessions' = [sessions EXCEPT ![session_id] = NoAddr]
        /\ addr' = [addr EXCEPT ![t] = sessions[session_id]]
        /\ Goto(t, "unmap")
     \/ /\ session_id \notin Live
        /\ UNCHANGED <<sessions, addr>>
        /\ Goto(t, "reserve")
  /\ UNCHANGED <<ip_to_session, allocator, counters, session_id, fam, todo, creates>>

-----------------------------------------------------------------------------
(* The steps remove_session and the replacement share. *)

Uncount(t) ==
  /\ pc[t] = "uncount"
  /\ session_count' = Decrement(session_count)
  /\ Goto(t, IF InCreate(t) THEN "reserve" ELSE "unmap")
  /\ UNCHANGED <<table, allocator, gauge, locals, fam>>

Unmap(t) ==
  /\ pc[t] = "unmap"
  /\ ip_to_session' = [ip_to_session EXCEPT
                         ![fam[t]] = {m \in @ : m.ip # addr[t][fam[t]]}]
  /\ Goto(t, "release")
  /\ UNCHANGED <<sessions, allocator, counters, locals, fam>>

(* IpAllocator::release ignores an offset outside the subnet. *)
release(f, o) ==
  released' = [released EXCEPT
                 ![f] = @ \cup {x \in {o} : 2 <= x /\ x <= max_offset[f]}]

Release(t) ==
  /\ pc[t] = "release"
  /\ release(fam[t], addr[t][fam[t]])
  /\ addr' = [addr EXCEPT ![t][fam[t]] = 0]
  /\ NextFamily(t, "unmap", "removed")
  /\ UNCHANGED <<table, next_offset, counters, session_id, todo, creates>>

(* emit_lifecycle(Removed): the callback decrements the gauge. *)
Removed(t) ==
  /\ pc[t] = "removed"
  /\ gauge' = Decrement(gauge)
  /\ Goto(t, IF InCreate(t) THEN "uncount" ELSE "idle")
  /\ UNCHANGED <<table, allocator, session_count, locals, fam>>

-----------------------------------------------------------------------------
(* Reserve with the comparison off by one. *)
ReserveOneMore(t) ==
  /\ pc[t] = "reserve"
  /\ session_count' = session_count + 1
  /\ Goto(t, IF session_count > max_sessions THEN "reject" ELSE "allocate")
  /\ UNCHANGED <<table, allocator, gauge, locals, fam>>

(* create: reserve a slot with fetch_add, and give it back when the table was
   full already.                                                           *)
Reserve(t) ==
  /\ pc[t] = "reserve"
  /\ session_count' = session_count + 1
  /\ Goto(t, IF session_count >= max_sessions THEN "reject" ELSE "allocate")
  /\ UNCHANGED <<table, allocator, gauge, locals, fam>>

(* Reject had unreserve been forgotten. *)
RejectKeepsSlot(t) ==
  /\ pc[t] = "reject"
  /\ Goto(t, "idle")
  /\ fam' = [fam EXCEPT ![t] = "v4"]
  /\ session_id' = NoSession
  /\ UNCHANGED <<table, allocator, counters, addr, todo, creates>>

(* The table is full or an allocator was empty: fetch_sub and return Err. *)
Reject(t) ==
  /\ pc[t] = "reject"
  /\ session_count' = session_count - 1
  /\ Goto(t, "idle")
  /\ fam' = [fam EXCEPT ![t] = "v4"]
  /\ session_id' = NoSession
  /\ UNCHANGED <<table, allocator, gauge, addr, todo, creates>>

(* allocate had it left the offset it reuses in the pool. *)
AllocateKeepsReleased(f, o) ==
  \/ /\ o \in released[f]
     /\ UNCHANGED <<released, next_offset>>
  \/ /\ released[f] = {}
     /\ o = next_offset[f]
     /\ o <= max_offset[f]
     /\ next_offset' = [next_offset EXCEPT ![f] = o + 1]
     /\ UNCHANGED released

(* allocate: any released offset, else the next one, else none. *)
allocate(f, o) ==
  \/ /\ o \in released[f]
     /\ released' = [released EXCEPT ![f] = @ \ {o}]
     /\ UNCHANGED next_offset
  \/ /\ released[f] = {}
     /\ o = next_offset[f]
     /\ o <= max_offset[f]
     /\ next_offset' = [next_offset EXCEPT ![f] = o + 1]
     /\ UNCHANGED released

Allocate(t) ==
  /\ pc[t] = "allocate"
  /\ \E o \in released[fam[t]] \cup {next_offset[fam[t]]} :
       /\ allocate(fam[t], o)
       /\ addr' = [addr EXCEPT ![t][fam[t]] = o]
  /\ NextFamily(t, "allocate", "insert")
  /\ UNCHANGED <<table, counters, session_id, todo, creates>>

(* The IPv6 error path had it not released the IPv4 address. *)
FailWithoutRelease(t) ==
  /\ pc[t] = "allocate"
  /\ released[fam[t]] = {}
  /\ next_offset[fam[t]] > max_offset[fam[t]]
  /\ addr' = [addr EXCEPT ![t] = NoAddr]
  /\ Goto(t, "reject")
  /\ UNCHANGED <<table, allocator, counters, session_id, fam, todo, creates>>

(* No address left: an IPv4 address already allocated is released first. *)
AllocateFails(t) ==
  /\ pc[t] = "allocate"
  /\ released[fam[t]] = {}
  /\ next_offset[fam[t]] > max_offset[fam[t]]
  /\ Goto(t, IF fam[t] = "v6" THEN "giveback" ELSE "reject")
  /\ UNCHANGED <<table, allocator, counters, locals, fam>>

GiveBack(t) ==
  /\ pc[t] = "giveback"
  /\ release("v4", addr[t]["v4"])
  /\ addr' = [addr EXCEPT ![t] = NoAddr]
  /\ Goto(t, "reject")
  /\ UNCHANGED <<table, next_offset, counters, session_id, fam, todo, creates>>

(* create: insert into the table, then into each address map, then emit. *)
Insert(t) ==
  /\ pc[t] = "insert"
  /\ sessions' = [sessions EXCEPT ![session_id] = addr[t]]
  /\ Goto(t, "map")
  /\ UNCHANGED <<ip_to_session, allocator, counters, locals, fam>>

(* Map had the IPv6 map been left out. *)
MapIpv4Only(t) ==
  /\ pc[t] = "map"
  /\ ip_to_session' =
       [ip_to_session EXCEPT
          !["v4"] = {m \in @ : m.ip # addr[t]["v4"]}
                      \cup {[ip |-> addr[t]["v4"], session |-> session_id]}]
  /\ Goto(t, "created")
  /\ UNCHANGED <<sessions, allocator, counters, locals, fam>>

Map(t) ==
  /\ pc[t] = "map"
  /\ ip_to_session' =
       [ip_to_session EXCEPT
          ![fam[t]] = {m \in @ : m.ip # addr[t][fam[t]]}
                        \cup {[ip |-> addr[t][fam[t]], session |-> session_id]}]
  /\ NextFamily(t, "map", "created")
  /\ UNCHANGED <<sessions, allocator, counters, locals>>

(* emit_lifecycle(Created): the callback increments the gauge. *)
Created(t) ==
  /\ pc[t] = "created"
  /\ gauge' = gauge + 1
  /\ addr' = [addr EXCEPT ![t] = NoAddr]
  /\ session_id' = NoSession
  /\ Goto(t, "idle")
  /\ UNCHANGED <<table, allocator, session_count, fam, todo, creates>>

Next ==
  \/ \E s \in SessionIds : StartCreate(s)
  \/ \E t \in Tasks :
       \/ \E S \in SUBSET SessionIds : StartRemove(t, S)
       \/ \E s \in todo[t] : TakeToRemove(t, s)
       \/ TakeToReplace(t) \/ Uncount(t) \/ Unmap(t) \/ Release(t) \/ Removed(t)
       \/ Reserve(t) \/ Reject(t) \/ Allocate(t) \/ AllocateFails(t)
       \/ GiveBack(t) \/ Insert(t) \/ Map(t) \/ Created(t)

Spec == Init /\ [][Next]_vars

-----------------------------------------------------------------------------
(* Types of the table, the allocators, the counters and the tasks. *)
TypeOK ==
  /\ sessions \in [SessionIds -> Addr]
  /\ ip_to_session \in [Families -> SUBSET [ip: Nat, session: SessionIds]]
  /\ next_offset \in [Families -> Nat]
  /\ released \in [Families -> SUBSET Nat]
  /\ session_count \in Nat
  /\ gauge \in Nat
  /\ pc \in [Tasks -> Labels]
  /\ session_id \in SessionIds \cup {NoSession}
  /\ addr \in [Tasks -> Addr]
  /\ fam \in [Tasks -> Families]
  /\ todo \in [Tasks -> SUBSET SessionIds]
  /\ creates \in Nat

(* Address o is about to be released by task t, or allocated by it for a
   session that is not in the table yet.                                   *)
Holds(t, f, o) ==
  pc[t] \in {"uncount", "unmap", "release", "allocate", "giveback", "insert"}
    /\ addr[t][f] = o

(* Two sessions in the table never share a tunnel address, and an address in
   use by a session, or still being mapped or unmapped by a task, is never in
   the pool of released ones nor ahead of the allocator.                   *)
AddressesExclusive ==
  \A f \in Families :
    /\ \A r, s \in Live : sessions[r][f] = sessions[s][f] => r = s
    /\ \A s \in Live : /\ sessions[s][f] \notin released[f]
                       /\ sessions[s][f] \in 2 .. max_offset[f]
                       /\ \A t \in Tasks : ~ Holds(t, f, sessions[s][f])

(* Task t is between its change of the table and its change of the counter. *)
Unsettled(t) ==
  \/ pc[t] \in {"uncount", "reject", "allocate", "giveback", "insert"}
  \/ pc[t] \in {"unmap", "release", "removed"} /\ InCreate(t)

(* The tasks' counter increments and decrements never drift from the table:
   session_count is the number of sessions plus the number of tasks between
   the table and the counter.                                              *)
SessionCountExact ==
  session_count = Cardinality(Live) + Cardinality({t \in Tasks : Unsettled(t)})

(* The session that has passed the check and is not yet in the table. *)
Admitted == IF pc[Control] \in {"allocate", "giveback", "insert"} THEN 1 ELSE 0

(* The reservation keeps the table within max_sessions, the session being
   admitted included, though the check and the insertion are many steps apart
   and removals run in between.                                            *)
WithinCapacity == Cardinality(Live) + Admitted <= max_sessions

(* A session whose creation has finished is found by the address it was given,
   until it is taken out of the table: no removal of another session, and no
   replacement, takes its mapping away.                                    *)
MappedWhileLive ==
  \A s \in Live, f \in Families :
    (pc[Control] \in {"map", "created"} => session_id # s)
      => [ip |-> sessions[s][f], session |-> s] \in ip_to_session[f]

(* No create or remove is under way. *)
Quiet == \A t \in Tasks : pc[t] = "idle"

(* No address is lost: when no create or remove is under way, every address ever
   handed out belongs to a session or can be handed out again, whichever error
   path or race its holder went through.                                   *)
NoAddressLeak ==
  Quiet =>
    \A f \in Families : \A o \in 2 .. next_offset[f] - 1 :
      o \in released[f] \/ \E s \in Live : sessions[s][f] = o

(* When no task is inside the session manager the gauge reports no fewer
   sessions than there are.                                                *)
GaugeNotBelow == Quiet => gauge >= Cardinality(Live)

(* What the comment on the lifecycle callback promises: whenever no create or
   remove is under way, sessions_active is the number of sessions.         *)
GaugeConsistent == Quiet => gauge = Cardinality(Live)
=============================================================================
