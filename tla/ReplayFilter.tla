---------------------------- MODULE ReplayFilter ----------------------------
(***************************************************************************)
(* What an anti-replay window promises, with no bitmap and no arithmetic   *)
(* on words: it remembers the counters it has accepted since the last      *)
(* rekey, and accepts a counter exactly when it has not been accepted      *)
(* before and is less than Window behind every accepted counter.           *)
(*                                                                         *)
(* AntiReplayWindow implements this specification; the other modules use   *)
(* the operator Fresh below wherever the program uses the window.          *)
(***************************************************************************)
EXTENDS Integers

CONSTANTS Window,    \* how far behind the newest counter one may still arrive
          Counters   \* the counters a packet may carry

VARIABLES seen,      \* counters accepted since the last rekey
          verdict    \* the last counter presented and the answer to it

vars == <<seen, verdict>>

Verdict(answer, c) == [answer |-> answer, counter |-> c]

NoVerdict == Verdict("none", 0)

Fresh(accepted, c) ==
  /\ c \notin accepted
  /\ \A s \in accepted : s - c < Window

Init == seen = {} /\ verdict = NoVerdict

Present(c) ==
  \/ /\ Fresh(seen, c)
     /\ seen' = seen \cup {c}
     /\ verdict' = Verdict("accept", c)
  \/ /\ ~ Fresh(seen, c)
     /\ verdict' = Verdict("reject", c)
     /\ UNCHANGED seen

Forget == seen' = {} /\ verdict' = NoVerdict

Next == Forget \/ \E c \in Counters : Present(c)

Spec == Init /\ [][Next]_vars
=============================================================================
