------------------------------ MODULE RingTape ------------------------------
(***************************************************************************)
(* What a WebRTC ring buffer promises: a tape of the last N elements       *)
(* written, of which the newest `avail' are unread.  Reading takes the     *)
(* oldest unread ones; moving the read position forward skips them, moving *)
(* it back exposes older elements again.                                   *)
(***************************************************************************)
EXTENDS Integers, Sequences

CONSTANTS N, Val, Zero

VARIABLES
  tape,    \* the last N elements, the newest at N
  avail,   \* how many of them are unread
  call,    \* the last call and its argument
  out      \* what it returned

tapeVars == <<tape, avail, call, out>>

AtMost(a, b) == IF a < b THEN a ELSE b
AtLeast(a, b) == IF a < b THEN b ELSE a

TapeInit == /\ tape = [i \in 1..N |-> Zero] /\ avail = 0 /\ out = 0
            /\ call = <<"init">>

Pushed(s, k) ==
  [i \in 1..N |-> IF i <= N - k THEN tape[i + k] ELSE s[i - (N - k)]]

TapeWrite(s) ==
  LET k == AtMost(Len(s), N - avail)
  IN  tape' = Pushed(s, k) /\ avail' = avail + k /\ out' = k

TapeRead(c) ==
  LET k == AtMost(c, avail)
  IN  /\ out' = [i \in 1..k |-> tape[N - avail + i]]
      /\ avail' = avail - k
      /\ UNCHANGED tape

TapeMove(c) ==
  LET k == AtLeast(AtMost(c, avail), -(N - avail))
  IN  avail' = avail - k /\ out' = k /\ UNCHANGED tape

TapeReset == tape' = [i \in 1..N |-> Zero] /\ avail' = 0 /\ out' = 0

TapeNext ==
  \/ call'[1] = "write" /\ TapeWrite(call'[2])
  \/ call'[1] = "read" /\ TapeRead(call'[2])
  \/ call'[1] = "move" /\ TapeMove(call'[2])
  \/ call'[1] = "init" /\ TapeReset

TapeSpec == TapeInit /\ [][TapeNext]_tapeVars
=============================================================================
