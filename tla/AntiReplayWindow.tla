-------------------------- MODULE AntiReplayWindow --------------------------
(***************************************************************************)
(* The anti-replay window of a session, hpn-core/src/protocol/session.rs.  *)
(*                                                                         *)
(* The code keeps the highest counter seen and a bitmap of BITMAP_WORDS    *)
(* machine words; bit b of word i records that counter                     *)
(* last_counter - (i * WordBits + b) was accepted.  A word is the set of   *)
(* the positions of its 1 bits.  check_and_update holds the bitmap mutex   *)
(* from its first read to its last write, so a call is one step whichever  *)
(* thread makes it.  reset is only reached through update_keys(&mut self), *)
(* which excludes every other call, so it is one step too.                 *)
(***************************************************************************)
EXTENDS Integers

CONSTANTS WordBits,      \* bits in a word of the bitmap: 128 in the code
          BITMAP_WORDS,  \* words in the bitmap: 64 in the code
          Counters       \* counters a packet may carry: a set of naturals

ASSUME WordBitsAssumption == WordBits \in Nat \ {0}
ASSUME BitmapWordsAssumption == BITMAP_WORDS \in Nat \ {0}
ASSUME CountersAssumption == Counters \subseteq Nat

REPLAY_WINDOW_SIZE == BITMAP_WORDS * WordBits

Words == 0 .. BITMAP_WORDS - 1
Bits  == 0 .. WordBits - 1

VARIABLES last_counter,  \* highest counter seen
          bitmap,        \* [Words -> SUBSET Bits]
          verdict,       \* the last counter checked and what check_and_update returned
          accepts        \* history: how often each counter was accepted since the last reset

vars == <<last_counter, bitmap, verdict, accepts>>

Verdict(answer, c) == [answer |-> answer, counter |-> c]

NoVerdict == Verdict("none", 0)

Clear == [i \in Words |-> {}]

-----------------------------------------------------------------------------
(* shift_bitmap: whole words first, then the remaining bits with the carry
   from the next lower word.  Both loops run from the highest index down, so
   each reads words the loop has not written yet.                          *)

ShiftWords(b, n) == [i \in Words |-> IF i >= n THEN b[i - n] ELSE {}]

ShiftLeft(w, n)  == {k \in Bits : k - n \in w}
ShiftRight(w, n) == {k \in Bits : k + n \in w}

(* ShiftBits without the carry. *)
ShiftBitsNoCarry(b, n) == [i \in Words |-> ShiftLeft(b[i], n)]

ShiftBits(b, n) ==
  [i \in Words |->
     ShiftLeft(b[i], n)
       \cup (IF i > 0 THEN ShiftRight(b[i - 1], WordBits - n) ELSE {})]

shift_bitmap(b, shift) ==
  IF shift >= REPLAY_WINDOW_SIZE
  THEN Clear
  ELSE ShiftBits(ShiftWords(b, shift \div WordBits), shift % WordBits)

(* Bit number d of the bitmap, counted from the newest counter. *)
Marked(b, d) == d % WordBits \in b[d \div WordBits]

(* Mark without the remainder that finds the bit in its word. *)
MarkWholeOffset(b, d) == [b EXCEPT ![d \div WordBits] = @ \cup {d}]

Mark(b, d) ==
  [b EXCEPT ![d \div WordBits] = @ \cup {d % WordBits}]

(* check with a window one counter too short. *)
CheckShort(c) ==
  \/ c > last_counter
  \/ /\ last_counter - c < REPLAY_WINDOW_SIZE - 1
     /\ ~ Marked(bitmap, last_counter - c)

(* check: the answer check_and_update will give, without the update. *)
check(c) ==
  \/ c > last_counter
  \/ /\ last_counter - c < REPLAY_WINDOW_SIZE
     /\ ~ Marked(bitmap, last_counter - c)

-----------------------------------------------------------------------------
Init ==
  /\ last_counter = 0
  /\ bitmap = Clear
  /\ verdict = NoVerdict
  /\ accepts = [c \in Counters |-> 0]

Accept(c) ==
  /\ verdict' = Verdict("accept", c)
  /\ accepts' = [accepts EXCEPT ![c] = @ + 1]

(* check_and_update, counter above the highest seen: slide, mark bit 0. *)
Advance(c) ==
  /\ c > last_counter
  /\ bitmap' = Mark(shift_bitmap(bitmap, c - last_counter), 0)
  /\ last_counter' = c
  /\ Accept(c)

(* check_and_update, counter inside the window and not marked yet. *)
FillIn(c) ==
  /\ c <= last_counter
  /\ check(c)
  /\ bitmap' = Mark(bitmap, last_counter - c)
  /\ Accept(c)
  /\ UNCHANGED last_counter

(* check_and_update, counter too old or already marked. *)
Refuse(c) ==
  /\ ~ check(c)
  /\ verdict' = Verdict("reject", c)
  /\ UNCHANGED <<last_counter, bitmap, accepts>>

check_and_update(c) == Advance(c) \/ FillIn(c) \/ Refuse(c)

(* reset had it forgotten the bitmap. *)
ResetKeepsBitmap ==
  /\ last_counter' = 0
  /\ verdict' = NoVerdict
  /\ accepts' = [c \in Counters |-> 0]
  /\ UNCHANGED bitmap

(* reset had it forgotten the highest counter. *)
ResetKeepsLast ==
  /\ bitmap' = Clear
  /\ verdict' = NoVerdict
  /\ accepts' = [c \in Counters |-> 0]
  /\ UNCHANGED last_counter

reset ==
  /\ last_counter' = 0
  /\ bitmap' = Clear
  /\ verdict' = NoVerdict
  /\ accepts' = [c \in Counters |-> 0]

Next == reset \/ \E c \in Counters : check_and_update(c)

Spec == Init /\ [][Next]_vars

-----------------------------------------------------------------------------
(* Types of the window's fields and of the two history variables. *)
TypeOK ==
  /\ last_counter \in Nat
  /\ bitmap \in [Words -> SUBSET Bits]
  /\ verdict \in [answer: {"none", "accept", "reject"}, counter: Nat]
  /\ accepts \in [Counters -> Nat]

(* No counter is accepted twice between two resets, whatever the order in
   which counters arrive and however far the window has slid since: what
   decrypt_packet relies on to drop a duplicated datagram.                 *)
AcceptedAtMostOnce == \A c \in Counters : accepts[c] <= 1

(* The bitmap never loses or invents a mark while it slides: for every
   counter inside the window the bit says exactly whether the counter was
   accepted, and nothing newer than last_counter was.                      *)
BitmapIsExact ==
  /\ \A c \in Counters : accepts[c] > 0 => c <= last_counter
  /\ \A c \in Counters :
       c <= last_counter /\ last_counter - c < REPLAY_WINDOW_SIZE
         => (Marked(bitmap, last_counter - c) <=> accepts[c] > 0)

(* last_counter is a counter that was accepted, unless it is still 0: the
   window never slides for a packet it then refuses.                       *)
LastWasAccepted ==
  last_counter > 0 => last_counter \in Counters /\ accepts[last_counter] > 0

(* The window implements the abstract filter: it refuses no counter the
   filter would accept (a packet that is merely late) and accepts none the
   filter would refuse.                                                    *)
Filter == INSTANCE ReplayFilter
            WITH Window <- REPLAY_WINDOW_SIZE,
                 seen <- {c \in Counters : accepts[c] > 0}

ImplementsFilter == Filter!Spec
=============================================================================
