----------------------------- MODULE AsyncTask -----------------------------
(***************************************************************************)
(* What an asynchronous task with progress events promises its JavaScript  *)
(* caller: the contract that AsyncOperation implements.  The caller gets a *)
(* promise (or an exception, and the promise is discarded); the task may   *)
(* emit events while it runs; the listener sees accepted events in order;  *)
(* the promise settles at most once, after the task ended, for the reason  *)
(* with the highest priority, and never after the environment went away.   *)
(***************************************************************************)
EXTENDS Naturals

VARIABLES
  phase,      \* of the task body: new, running or ended
  accepted,   \* number of events that were accepted from the task
  delivered,  \* number of events that were given to the listener
  failed,     \* the listener threw
  cancelled,  \* cancellation was requested
  promise,    \* pending, discarded, or the reason it was settled with
  live        \* the environment can still run JavaScript

vars == <<phase, accepted, delivered, failed, cancelled, promise, live>>

Init ==
  /\ phase = "new"
  /\ accepted = 0 /\ delivered = 0
  /\ failed = FALSE /\ cancelled = FALSE
  /\ promise = "pending"
  /\ live = TRUE

Start ==
  /\ phase = "new" /\ promise = "pending"
  /\ phase' = "running"
  /\ UNCHANGED <<accepted, delivered, failed, cancelled, promise, live>>

Emit ==
  /\ phase = "running"
  /\ accepted' = accepted + 1
  /\ UNCHANGED <<phase, delivered, failed, cancelled, promise, live>>

End ==
  /\ phase = "running"
  /\ phase' = "ended"
  /\ UNCHANGED <<accepted, delivered, failed, cancelled, promise, live>>

Deliver ==
  /\ live /\ promise = "pending"
  /\ delivered < accepted
  /\ delivered' = delivered + 1
  /\ failed' \in {failed, TRUE}
  /\ UNCHANGED <<phase, accepted, cancelled, promise, live>>

Cancel ==
  /\ live /\ promise = "pending"
  /\ cancelled' = TRUE
  /\ UNCHANGED <<phase, accepted, delivered, failed, promise, live>>

\* The reasons a settlement may give, highest priority first.  A cancelled task
\* may be given up with events left over; no other one is.
Settle ==
  /\ live /\ promise = "pending"
  /\ phase # "running"
  /\ promise' \in IF failed THEN {"listener"}
                  ELSE IF cancelled THEN {"abort"}
                  ELSE IF phase = "ended" THEN {"error", "resolved"}
                  ELSE {"error"}
  /\ cancelled \/ delivered = accepted
  /\ UNCHANGED <<phase, accepted, delivered, failed, cancelled, live>>

\* The caller gets an exception instead of the promise.
Discard ==
  /\ live /\ promise = "pending"
  /\ phase = "new"
  /\ promise' = "discarded"
  /\ UNCHANGED <<phase, accepted, delivered, failed, cancelled, live>>

TearDown ==
  /\ live
  /\ live' = FALSE
  /\ UNCHANGED <<phase, accepted, delivered, failed, cancelled, promise>>

Next == Start \/ Emit \/ End \/ Deliver \/ Cancel \/ Settle \/ Discard \/ TearDown

Spec == Init /\ [][Next]_vars

=============================================================================
