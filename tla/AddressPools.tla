---------------------------- MODULE AddressPools ----------------------------
(***************************************************************************)
(* The pools the tunnel addresses come from (IpAllocator and Ipv6Allocator *)
(* of session_manager.rs), with the arithmetic SessionManager leaves out:  *)
(* offsets become addresses by an addition that wraps (IPv4) or fails      *)
(* (IPv6, in the low half of the address), and addresses become offsets    *)
(* again when they are released.  Both pools work under a write lock, so a *)
(* call is a step.  An address is a pair of a high and a low half, the     *)
(* high half of an IPv4 address being 0, and the widths are scaled down.   *)
(***************************************************************************)
EXTENDS Integers, FiniteSets

CONSTANTS Deployments,   \* [v6, base: <<high, low>>, prefix]
          Width,         \* bits of an IPv4 address: 32
          LowBits,       \* bits of the low half of an IPv6 address: 64; the high half has as many
          Holders        \* who may hold an address

VARIABLES conf,
          pool,          \* [next_offset, released, max_offset]
          held           \* per holder: the address it has, or None

vars == <<conf, pool, held>>

None == <<-1, -1>>
Monus(a, b) == IF a > b THEN a - b ELSE 0
AtMost(a, b) == IF a < b THEN a ELSE b

\* Mutated form: only the network address is left out of the count.
IpAllocator_newBroadcast(c) == Monus(2 ^ (Width - c.prefix), 1)

IpAllocator_new(c) == Monus(2 ^ (Width - c.prefix), 2)

Ipv6Allocator_new(c) ==
  LET host_bits == AtMost(2 * LowBits - c.prefix, LowBits - 1)
  IN IF host_bits >= LowBits - 1 THEN (2 ^ LowBits - 1) - 2 ELSE Monus(2 ^ host_bits, 2)

\* SessionManager::new and with_ipv6 build the pools.
Init ==
  /\ conf \in Deployments
  /\ pool = [next_offset |-> 2, released |-> {},
             max_offset |-> IF conf.v6 THEN Ipv6Allocator_new(conf) ELSE IpAllocator_new(conf)]
  /\ held = [h \in Holders |-> None]

-----------------------------------------------------------------------------
(* Offsets and addresses *)

IpAllocator_offset_to_ip(offset) == <<0, (conf.base[2] + offset) % (2 ^ Width)>>

Ipv6Allocator_offset_to_ip(offset) ==
  IF conf.base[2] + offset < 2 ^ LowBits THEN <<conf.base[1], conf.base[2] + offset>> ELSE None

offset_to_ip(offset) == IF conf.v6 THEN Ipv6Allocator_offset_to_ip(offset) ELSE IpAllocator_offset_to_ip(offset)

\* The offset of an address, or -1 where checked_sub or the comparison of the high half fails.
IpAllocator_ip_to_offset(ip) == IF ip[2] >= conf.base[2] THEN ip[2] - conf.base[2] ELSE -1

\* Mutated form: the offset is that of the whole low half.
Ipv6Allocator_ip_to_offsetLow(ip) == ip[2]

Ipv6Allocator_ip_to_offset(ip) ==
  IF ip[1] = conf.base[1] /\ ip[2] >= conf.base[2] THEN ip[2] - conf.base[2] ELSE -1

ip_to_offset(ip) == IF conf.v6 THEN Ipv6Allocator_ip_to_offset(ip) ELSE IpAllocator_ip_to_offset(ip)

netmask == 2 ^ Width - 2 ^ (Width - conf.prefix)

-----------------------------------------------------------------------------
(* The calls *)

\* allocate of both pools: any released offset, else the next, which stays the next when it has no address.
allocate(h) ==
  /\ held[h] = None
  /\ \/ \E offset \in pool.released :
          /\ pool' = [pool EXCEPT !.released = @ \ {offset}]
          /\ held' = [held EXCEPT ![h] = offset_to_ip(offset)]
     \/ /\ pool.released = {}
        /\ pool.next_offset <= pool.max_offset
        /\ offset_to_ip(pool.next_offset) # None
        /\ pool' = [pool EXCEPT !.next_offset = @ + 1]
        /\ held' = [held EXCEPT ![h] = offset_to_ip(pool.next_offset)]

\* release of both pools.  The session manager gives back what a session had, once.
release(h) ==
  LET offset == ip_to_offset(held[h])
  IN /\ held[h] # None
     /\ pool' = IF 2 <= offset /\ offset <= pool.max_offset
                THEN [pool EXCEPT !.released = @ \cup {offset}] ELSE pool
     /\ held' = [held EXCEPT ![h] = None]

available == Monus(pool.max_offset, pool.next_offset - 2) + Cardinality(pool.released)

Next == UNCHANGED conf /\ \E h \in Holders : allocate(h) \/ release(h)

-----------------------------------------------------------------------------
(* Properties *)

Held == {h \in Holders : held[h] # None}

\* The addresses of the network that sessions may have: neither that of the network, of the server (the
\* first one) nor, with IPv4, the broadcast address; the network being what netmask or the prefix says.
Usable ==
  IF conf.v6
  THEN {<<conf.base[1], low>> : low \in {l \in 0..(2 ^ LowBits - 1) :
          l - conf.base[2] \in 2..(IF conf.prefix <= LowBits THEN 2 ^ LowBits - 1 ELSE 2 ^ (2 * LowBits - conf.prefix) - 1)}}
  ELSE LET hosts == 2 ^ Width - netmask
       IN {<<0, low>> : low \in {l \in 0..(2 ^ Width - 1) :
             l \div hosts = conf.base[2] \div hosts /\ l % hosts \in 2..(hosts - 2)}}

\* No two sessions have one address, every address lies in the network and is no special one of it, and
\* every address ever handed out is held or can be handed out again, whatever order the calls come in.
PoolsAreSound ==
  /\ \A g, h \in Held : held[g] = held[h] => g = h
  /\ \A h \in Held : held[h] \in Usable
  /\ {offset_to_ip(o) : o \in 2..(pool.next_offset - 1)} =
       {held[h] : h \in Held} \cup {offset_to_ip(o) : o \in pool.released}
  /\ \A h \in Held : ip_to_offset(held[h]) \notin pool.released

\* "Get the number of available addresses" (session_manager.rs 470): as many as allocate would still give.
AvailableIsExact == available = (pool.max_offset + 1 - pool.next_offset) + Cardinality(pool.released)
=============================================================================
