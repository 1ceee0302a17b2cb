---------------------------- MODULE VersionedTable ----------------------------
(***************************************************************************)
(* What the callers of one process may rely on when they share a table:    *)
(* a write is acknowledged when it is visible, what is visible never goes  *)
(* back, a read returns what is visible, and no read comes between the     *)
(* commit of a write and the answer to it.  There is no lock, no cache and *)
(* no stream here.  Other processes may write too.                         *)
(***************************************************************************)
EXTENDS Naturals

CONSTANT Callers

VARIABLES
    committed,   \* the newest version of the table; 0: there is no table
    visible,     \* the version a read returns; 0: not opened
    held,        \* the version a caller has written and has no answer for
    result       \* the version the caller's last read returned; 0 for none

vars == <<committed, visible, held, result>>

Init ==
    /\ committed = 0 /\ visible = 0
    /\ held = [c \in Callers |-> 0] /\ result = [c \in Callers |-> 0]

Quiet == \A c \in Callers : held[c] = 0

(* The table is created, or another process writes.                        *)
Appear ==
    /\ committed' = committed + 1
    /\ UNCHANGED <<visible, held, result>>

Append(c) ==
    /\ Quiet /\ committed > 0
    /\ committed' = committed + 1
    /\ held' = [held EXCEPT ![c] = committed']
    /\ UNCHANGED <<visible, result>>

Acknowledge(c) ==
    /\ held[c] # 0
    /\ visible' \in held[c] .. committed /\ visible' >= visible
    /\ held' = [held EXCEPT ![c] = 0]
    /\ UNCHANGED <<committed, result>>

(* The caller is told that the write failed; it is committed all the same. *)
Abandon(c) ==
    /\ held[c] # 0
    /\ held' = [held EXCEPT ![c] = 0]
    /\ UNCHANGED <<committed, visible, result>>

Advance ==
    /\ Quiet
    /\ visible' \in visible .. committed
    /\ UNCHANGED <<committed, held, result>>

Read(c) ==
    /\ Quiet /\ visible > 0
    /\ result' = [result EXCEPT ![c] = visible]
    /\ UNCHANGED <<committed, visible, held>>

Forget(c) ==
    /\ result' = [result EXCEPT ![c] = 0]
    /\ UNCHANGED <<committed, visible, held>>

Next ==
    \/ Appear \/ Advance
    \/ \E c \in Callers :
          Append(c) \/ Acknowledge(c) \/ Abandon(c) \/ Read(c) \/ Forget(c)

Spec == Init /\ [][Next]_vars
=============================================================================
