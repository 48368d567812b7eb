----------------------------- MODULE DrawingReads -----------------------------
(***************************************************************************)
(* What a caller of the `uncad` crate may rely on (`parse_bytes_with_header`*)
(* of lib.rs): threads ask for drawings to be read, and every read returns *)
(* what its own bytes and format say, whatever other threads read.  Only a *)
(* read that waits for its turn may wait for ever, and only for another    *)
(* that never ends.                                                        *)
(***************************************************************************)
CONSTANTS
  Thread,
  Request,  \* what a thread may ask to have read
  Turns,    \* the requests served one at a time
  Unending, \* those among them whose reading may never end
  Nothing,  \* in place of a request or an answer, where there is none
  Outcome   \* what that gives: a function of the request alone

VARIABLES
  asked,    \* the request each thread is waiting on, or waited on last
  pending,  \* the threads waiting
  got       \* what each thread's last read returned, once it has

readVars == <<asked, pending, got>>

ReadInit ==
  /\ asked = [t \in Thread |-> Nothing]
  /\ pending = {}
  /\ got = [t \in Thread |-> Nothing]

Ask(t, request) ==
  /\ t \notin pending
  /\ asked' = [asked EXCEPT ![t] = request]
  /\ pending' = pending \cup {t}
  /\ got' = [got EXCEPT ![t] = Nothing]

Return(t) ==
  /\ t \in pending
  /\ got' = [got EXCEPT ![t] = Outcome[asked[t]]]
  /\ pending' = pending \ {t}
  /\ UNCHANGED asked

MayWait(t) == asked[t] \in Turns /\ \E u \in pending : asked[u] \in Unending

ReadNext == \E t \in Thread : Return(t) \/ \E request \in Request : Ask(t, request)

ReadSpec ==
  /\ ReadInit /\ [][ReadNext]_readVars
  /\ \A t \in Thread : WF_readVars(~MayWait(t) /\ Return(t))
=============================================================================
