---------------------------- MODULE AtomicCalls -----------------------------
(***************************************************************************)
(* What the queues, semaphores and mutexes of the kernel promise those     *)
(* who call them: whatever a call does on its way, it takes effect at one  *)
(* moment between its begin and its end, and only once; or it fails, and   *)
(* then it has no effect.  A call that waits for ever does not fail, one   *)
(* that takes fails only when there is nothing to take, and one that does  *)
(* not wait only when it cannot be done.  A mutex is one task's at a time. *)
(***************************************************************************)
EXTENDS Naturals

CONSTANTS Tasks, Queues, Mutexes, uxLength, Calls, IsrCalls, NULL

VARIABLES
  messages,  \* in each queue
  owner,     \* of each mutex
  pending    \* the call of each task that has had no effect yet

Init ==
  /\ messages = [q \in Queues |-> IF q \in Mutexes THEN 1 ELSE 0]
  /\ owner = [m \in Mutexes |-> NULL]
  /\ pending = [t \in Tasks |-> NULL]

Possible(q, f) == IF f = "send" THEN messages[q] < uxLength[q] ELSE messages[q] > 0

Effect(q, f) ==
  /\ Possible(q, f)
  /\ messages' = [messages EXCEPT ![q] = IF f = "send" THEN @ + 1 ELSE @ - 1]

PassesOn(m, from, to) == owner[m] = from /\ owner' = [owner EXCEPT ![m] = to]

Ends(t) == pending' = [pending EXCEPT ![t] = NULL]

Begin(t, c) ==
  /\ c.task = t /\ pending[t] = NULL
  /\ pending' = [pending EXCEPT ![t] = c]
  /\ UNCHANGED <<messages, owner>>

Succeed(t) ==
  LET c == pending[t] IN
  /\ c \in Calls /\ c.fn # "delay"
  /\ Effect(c.queue, c.fn)
  /\ \/ c.queue \notin Mutexes /\ UNCHANGED owner
     \/ c.queue \in Mutexes /\ c.fn = "take" /\ PassesOn(c.queue, NULL, t)
     \/ c.queue \in Mutexes /\ c.fn = "send" /\ PassesOn(c.queue, t, NULL)
  /\ Ends(t)

Fail(t) ==
  LET c == pending[t] IN
  /\ c \in Calls /\ c.fn # "delay"
  /\ c.wait # "portMAX_DELAY"
  /\ c.fn = "take" \/ c.wait = "none" => ~Possible(c.queue, c.fn)
  /\ Ends(t)
  /\ UNCHANGED <<messages, owner>>

EndDelay(t) ==
  /\ pending[t] \in Calls /\ pending[t].fn = "delay"
  /\ Ends(t)
  /\ UNCHANGED <<messages, owner>>

FromISR(q, f) == <<q, f>> \in IsrCalls /\ Effect(q, f) /\ UNCHANGED <<owner, pending>>

Next ==
  \/ \E t \in Tasks : Succeed(t) \/ Fail(t) \/ EndDelay(t) \/ \E c \in Calls : Begin(t, c)
  \/ \E q \in Queues, f \in {"send", "take"} : FromISR(q, f)

Spec == Init /\ [][Next]_<<messages, owner, pending>>
=============================================================================
