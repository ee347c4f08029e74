----------------------------- MODULE CancelTime -----------------------------
(***************************************************************************)
(* The timeout of an operation: set_invoke_timeout() and                   *)
(* tee_ta_session_is_cancelled() of core/kernel/tee_ta_manager.c, with the *)
(* system calls of core/tee/tee_svc.c that mask cancellation.  One session *)
(* whose TA polls the cancellation flag while the clock runs.  The clock   *)
(* stops before the seconds overflow, after 136 years in the code.         *)
(***************************************************************************)
EXTENDS Integers

CONSTANTS
    K,          \* milliseconds in a second: 1000
    SecMax,     \* UINT32_MAX
    Timeouts,   \* the values of cancel_req_to, in milliseconds
    Infinite    \* TEE_TIMEOUT_INFINITE

VARIABLES
    now,            \* the system time, in seconds and milliseconds
    cancel_time,    \* sess->cancel_time
    cancel_mask,    \* sess->cancel_mask
    cancel,         \* sess->cancel
    running,        \* the TA is in an operation
    due             \* history: the time in milliseconds to cancel it, or Infinite

vars == <<now, cancel_time, cancel_mask, cancel, running, due>>

InfiniteTime == [s |-> SecMax, m |-> SecMax]
Millis(time) == time.s * K + time.m

Init ==
    /\ now = [s |-> 0, m |-> 0]
    /\ cancel_time = [s |-> 0, m |-> 0]
    /\ cancel_mask = TRUE
    /\ cancel = FALSE
    /\ running = FALSE
    /\ due = Infinite

\* The time that set_invoke_timeout() computes.  A carry starts again from the
\* current seconds, and adds one twice.
CancelTimeFor(req) ==
    LET secs == now.s + req \div K
        millis == now.m + (req % K)
    IN  IF secs > SecMax THEN InfiniteTime
        ELSE IF millis <= K THEN [s |-> secs, m |-> millis]
        ELSE IF now.s = SecMax THEN InfiniteTime
        ELSE [s |-> (now.s + 2) % (SecMax + 1), m |-> millis - K]

\* set_invoke_timeout(), and the TA is entered.
set_invoke_timeout(req) ==
    /\ ~running
    /\ running' = TRUE
    /\ cancel_time' = IF req = Infinite THEN InfiniteTime ELSE CancelTimeFor(req)
    /\ due' = IF req = Infinite \/ now.s + req \div K >= SecMax THEN Infinite
              ELSE Millis(now) + req
    /\ UNCHANGED <<now, cancel_mask, cancel>>

\* tee_ta_session_is_cancelled()
is_cancelled ==
    /\ ~cancel_mask
    /\ \/ cancel
       \/ /\ cancel_time.s # SecMax
          /\ \/ now.s > cancel_time.s
             \/ now.s = cancel_time.s /\ now.m >= cancel_time.m

\* syscall_mask_cancellation(), syscall_unmask_cancellation()
syscall_mask_cancellation(mask) ==
    /\ running
    /\ cancel_mask' = mask
    /\ UNCHANGED <<now, cancel_time, cancel, running, due>>

tee_ta_cancel_command ==
    /\ cancel' = TRUE
    /\ UNCHANGED <<now, cancel_time, cancel_mask, running, due>>

\* The end of user_ta_enter().
Leave ==
    /\ running
    /\ running' = FALSE
    /\ cancel' = FALSE
    /\ cancel_mask' = TRUE
    /\ UNCHANGED <<now, cancel_time, due>>

\* tee_time_get_sys_time() returns a later time.
Tick ==
    /\ now.s < SecMax - 1
    /\ now' = IF now.m = K - 1 THEN [s |-> now.s + 1, m |-> 0]
              ELSE [now EXCEPT !.m = @ + 1]
    /\ UNCHANGED <<cancel_time, cancel_mask, cancel, running, due>>

Next ==
    \/ \E req \in Timeouts \cup {Infinite} : set_invoke_timeout(req)
    \/ \E mask \in BOOLEAN : syscall_mask_cancellation(mask)
    \/ tee_ta_cancel_command
    \/ Leave
    \/ Tick

Spec == Init /\ [][Next]_vars

-----------------------------------------------------------------------------
\* A TA that looks sees its operation cancelled from the moment on at which the
\* timeout its client gave has passed, and no earlier, unless the client has
\* cancelled it.
CancelledInTime ==
    running /\ ~cancel_mask /\ ~cancel =>
        (is_cancelled <=> due # Infinite /\ Millis(now) >= due)
=============================================================================
