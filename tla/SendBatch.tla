----------------------------- MODULE SendBatch -----------------------------
(***************************************************************************)
(* SendMmsg of hpn-server/src/syscall_batch.rs: the batch of datagrams a   *)
(* thread hands to the kernel with one sendmmsg.                           *)
(*                                                                         *)
(* buffers[i], iovecs[i] and addrs[i] are written and read together, so    *)
(* slots[i] stands for the three.  msgvec[i] is the slot its message       *)
(* header points to.  owed is no field of the code: the datagrams that     *)
(* were committed and that flush has neither reported sent nor dropped.    *)
(***************************************************************************)
EXTENDS Naturals, Sequences

Blank == [kind |-> "blank"]

\* Every header points to its own slot, and no slot holds a datagram.
new(batch_size) == [slots |-> [i \in 1 .. batch_size |-> Blank],
                    msgvec |-> [i \in 1 .. batch_size |-> i],
                    count |-> 0,
                    owed |-> <<>>]

is_empty(b) == b.count = 0
is_full(b) == b.count >= Len(b.slots)

\* get_buffer_mut and commit write slot count, and point header count at it.
commit(b, datagram) ==
  LET idx == b.count + 1
  IN [slots |-> [b.slots EXCEPT ![idx] = datagram],
      msgvec |-> [b.msgvec EXCEPT ![idx] = idx],
      count |-> idx,
      owed |-> Append(b.owed, datagram)]

add(b, datagram) == IF is_full(b) THEN b ELSE commit(b, datagram)

\* The datagrams the first n headers lead to.
Leading(b, n) == [i \in 1 .. n |-> b.slots[b.msgvec[i]]]

\* The headers after `unsent` swaps of a header with the one `total_sent` places later.
SwappedToFront(msgvec, total_sent, unsent) ==
  LET swap(m, i, j) == [m EXCEPT ![i] = m[j], ![j] = m[i]]
      after[i \in 0 .. unsent] ==
        IF i = 0 THEN msgvec ELSE swap(after[i - 1], i, total_sent + i)
  IN after[unsent]

\* flush ends when everything is sent, when the socket would block after total_sent datagrams,
\* or with another error, which drops the batch.  What an empty batch still holds is never read:
\* commit writes a slot and a header before flush reads them.
flush(b, total_sent, ending) ==
  CASE ending = "blocked" ->
         [b EXCEPT !.msgvec = SwappedToFront(@, total_sent, b.count - total_sent),
                   !.count = @ - total_sent,
                   !.owed = SubSeq(@, total_sent + 1, Len(@))]
    [] OTHER -> new(Len(b.slots))

FlushEndings(b) ==
  {[sent |-> b.count, ending |-> "done"]}
  \cup {[sent |-> n, ending |-> e] : n \in 0 .. (b.count - 1), e \in {"blocked", "error"}}
=============================================================================
