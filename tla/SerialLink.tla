----------------------------- MODULE SerialLink -----------------------------
(***************************************************************************)
(* What SerialManager promises its users, without goroutines, generations  *)
(* or handles: a link that goes up when the user connects it, that is      *)
(* recovered automatically only after it was lost, and that stays down     *)
(* once the user has said so.                                              *)
(***************************************************************************)
CONSTANTS Config, WithPort(_, _), Ports

VARIABLES
  mode,   \* "idle", "up", "recovering" or "shut"
  conf    \* the configuration in force

vars == <<mode, conf>>

Init == mode = "idle" /\ conf \in Config

UserConnect ==
  /\ mode \in {"idle", "recovering"}
  /\ mode' = "up"
  /\ UNCHANGED conf

\* Disconnecting, or any attempt to reconfigure while the link is down, ends
\* a recovery.
UserDisconnect ==
  /\ mode \in {"up", "recovering"}
  /\ mode' = "idle"
  /\ UNCHANGED conf

Reconfigure(new) ==
  /\ mode # "up"
  /\ mode' = IF mode = "shut" THEN "shut" ELSE "idle"
  /\ conf' = new

Drop   == mode = "up" /\ mode' = "recovering" /\ UNCHANGED conf
AutoUp == mode = "recovering" /\ mode' = "up" /\ UNCHANGED conf
GiveUp == mode = "recovering" /\ mode' = "idle" /\ UNCHANGED conf

\* The device came back under another name.
AutoRename(p) ==
  /\ mode = "recovering"
  /\ conf' = WithPort(conf, p)
  /\ UNCHANGED mode

Shut == mode' = "shut" /\ UNCHANGED conf

Next ==
  \/ UserConnect \/ UserDisconnect \/ Drop \/ AutoUp \/ GiveUp \/ Shut
  \/ \E new \in Config : Reconfigure(new)
  \/ \E p \in Ports : AutoRename(p)

SafeSpec == Init /\ [][Next]_vars

\* A recovery does not go on for ever.
Spec == SafeSpec /\ WF_vars(AutoUp \/ GiveUp)

=============================================================================
