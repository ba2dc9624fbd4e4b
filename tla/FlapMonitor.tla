---------------------------- MODULE FlapMonitor ----------------------------
(***************************************************************************)
(* DongleManager with one history variable: how long the supervisor waited *)
(* after the last session, while sessions keep flapping (dying within      *)
(* kFlapWindow) and no poll finds the dongle absent.                       *)
(***************************************************************************)
EXTENDS DongleManager

VARIABLE flapWait  \* history: the backoff set by the last flap, 0 when there
                   \* was a good session or an absent dongle since

FlapInit == Init /\ flapWait = 0

FlapNext ==
  /\ Next
  /\ flapWait' = CASE sup = "disconnected" /\ sup' = "top" -> backoff'
                   [] sup = "open" /\ sup' = "top"         -> 0
                   [] OTHER                                -> flapWait

FlapSpec == FlapInit /\ [][FlapNext]_<<vars, flapWait>>

\* "back off exponentially when ... a session flaps": the wait after a flap is
\* longer than the wait after the flap before it, up to kBackoffMax.
FlapsBackOff ==
  [][(sup = "disconnected" /\ sup' = "top" /\ backoff' > 0 /\ flapWait > 0)
       => (backoff' > flapWait \/ backoff' = BackoffMax)]_<<vars, flapWait>>
=============================================================================
