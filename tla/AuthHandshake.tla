---------------------------- MODULE AuthHandshake ----------------------------
(***************************************************************************)
(* What open() of an authenticated transport promises its caller.  Calls   *)
(* are numbered.  The server accepts the credentials of one call per       *)
(* connection, and only the call whose credentials it has accepted may     *)
(* return normally.                                                        *)
(***************************************************************************)
EXTENDS Naturals

CONSTANT MaxAttempts

VARIABLES
    attempt,    \* the current call of open(), or the last one
    phase,      \* "closed", "negotiating" or "secured"
    accepted    \* the call whose credentials the server accepted; 0 if none

avars == <<attempt, phase, accepted>>

AInit == attempt = 0 /\ phase = "closed" /\ accepted = 0

(* A call of open(), on a new connection or on the one that is there.      *)
Begin ==
    /\ phase = "closed"
    /\ attempt < MaxAttempts /\ attempt' = attempt + 1
    /\ phase' \in {"negotiating", "closed"}
    /\ accepted' \in {accepted, 0}

Accept ==
    /\ phase # "secured" /\ accepted = 0
    /\ accepted' \in 1 .. attempt
    /\ UNCHANGED <<attempt, phase>>

Establish ==
    /\ phase = "negotiating" /\ accepted = attempt
    /\ phase' = "secured"
    /\ UNCHANGED <<attempt, accepted>>

Fail ==
    /\ phase = "negotiating"
    /\ phase' = "closed"
    /\ UNCHANGED <<attempt, accepted>>

Leave ==
    /\ phase = "secured"
    /\ phase' = "closed"
    /\ UNCHANGED <<attempt, accepted>>

ANext == Begin \/ Accept \/ Establish \/ Fail \/ Leave

ASafe == AInit /\ [][ANext]_avars
=============================================================================
