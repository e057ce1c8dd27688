----------------------------- MODULE IrqDelivery ----------------------------
(***************************************************************************)
(* What the PLIC driver promises the device drivers whose handlers it      *)
(* runs on its hart: a request a device raises stays outstanding until a   *)
(* handling of it finishes; one request is handled at a time; a handling   *)
(* starts only for an outstanding request, and finishing it retires        *)
(* exactly that request.  Nothing is said here about which request goes    *)
(* first (priorities, thresholds, enables): that is the detailed model's.  *)
(***************************************************************************)
EXTENDS Naturals

CONSTANTS
  NrIrqs,     \* interrupt sources 1..NrIrqs
  MaxRaises   \* bound on the requests each device raises

Ids == 1..NrIrqs
None == 0     \* no request is being handled

VARIABLES
  req,        \* requests raised and not yet handled
  active,     \* the request being handled, or None
  raised      \* requests each device has raised so far

avars == <<req, active, raised>>

AInit ==
  /\ req = {}
  /\ active = None
  /\ raised = [i \in Ids |-> 0]

(* A device raises a request; it has at most one outstanding.             *)
ARaise(i) ==
  /\ i \notin req
  /\ raised[i] < MaxRaises
  /\ req' = req \cup {i}
  /\ raised' = [raised EXCEPT ![i] = @ + 1]
  /\ UNCHANGED active

(* The handling of an outstanding request starts, when none is running.    *)
AStart(i) ==
  /\ active = None
  /\ i \in req
  /\ active' = i
  /\ UNCHANGED <<req, raised>>

(* The running handling finishes and its request is retired.              *)
AFinish ==
  /\ active # None
  /\ req' = req \ {active}
  /\ active' = None
  /\ UNCHANGED raised

ANext ==
  \/ \E i \in Ids : ARaise(i)
  \/ \E i \in Ids : AStart(i)
  \/ AFinish

ASpec == AInit /\ [][ANext]_avars

=============================================================================
