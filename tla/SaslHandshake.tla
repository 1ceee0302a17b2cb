---------------------------- MODULE SaslHandshake ----------------------------
(***************************************************************************)
(* SaslNegotiation implements AuthHandshake: the negotiation is the call   *)
(* of open() in progress, and the server has accepted a call's credentials *)
(* when it is done with that call's context.                               *)
(***************************************************************************)
EXTENDS SaslNegotiation

PhaseOf(o) ==
    IF o = "ok" THEN "secured" ELSE IF o = "pending" THEN "negotiating" ELSE "closed"

Handshake == INSTANCE AuthHandshake WITH
    MaxAttempts <- MaxOpens,
    attempt <- opens,
    phase <- PhaseOf(outcome),
    accepted <- IF spc = "done" THEN sctx ELSE 0

(* Every step of the negotiation, for the caller of open(), is a step of   *)
(* the handshake or none: in particular open() returns normally only while *)
(* the server is done with the context of this very call.                  *)
HandshakeSafe == Handshake!ASafe

-----------------------------------------------------------------------------
(* The inductive invariant behind SecuredAgreement, for a mechanism of two *)
(* rounds or more.                                                         *)

Negotiating == pc \in {"setup", "start", "recv", "final"}

Elems(s) == {s[i] : i \in 1 .. Len(s)}

(* No token has reached the server, and none is on its way.                *)
NoTokens == sprog = 0 /\ \A m \in Elems(toServer) : m.n = 0

(* Control: which values of pc, outcome and isOpen go together, and what   *)
(* the two flags of the client mean at each.                               *)
ControlInv ==
    /\ Negotiating <=> outcome = "pending"
    /\ outcome = "ok" => pc = "idle"
    /\ outcome \in {"pending", "ok"} => isOpen
    /\ pc \in {"idle", "setup", "start"} => (clientStarted <=> authComplete)
    /\ pc = "recv" => clientStarted /\ ~authComplete
    /\ pc = "final" => clientStarted /\ authComplete
    /\ pc = "idle" /\ authComplete => outcome = "ok" \/ ~isOpen

(* Contexts: conn is allocated, one that open() found there is complete,   *)
(* and so is one that conn no longer points to.                            *)
ContextInv ==
    /\ live \subseteq 1 .. opens
    /\ conn # 0 => conn \in live
    /\ pc \in {"idle", "setup"} /\ conn # 0 => Complete(conn)
    /\ pc \in {"start", "recv", "final"} => conn = opens /\ conn # 0
    /\ Negotiating => opens # 0
    /\ pc = "setup" => opens \notin live
    /\ pc \in {"setup", "start"} => sent[opens] = 0
    /\ \A c \in Ctx : c > opens => sent[c] = 0
    /\ pc = "recv" => sent[conn] \in 1 .. Rounds - 1
    /\ \A c \in live : c = conn \/ Complete(c)

(* Tokens: a challenge on its way is one of the context the server talks   *)
(* to, a COMPLETE is sent by a server that is done, and a context that has *)
(* sent a second token is the one the server talks to.                     *)
TokenInv ==
    /\ \A m \in Elems(toServer) : m.ctx <= opens
    /\ sprog > 0 => sctx \in 1 .. opens
    /\ \A m \in Elems(toClient) :
        /\ m.n > 0 => m.ctx = sctx /\ sprog > 0
        /\ m.status = "COMPLETE" => spc = "done"
    /\ spc = "done" => sprog = Rounds
    /\ spc = "start" => sprog = 0
    /\ probe => sprog > 0
    /\ pc \in {"recv", "final"} /\ sent[conn] >= 2 => sctx = conn /\ sprog > 0

(* Stale flags: a client that believes itself authenticated before the     *)
(* exchange talks to a server that has received no token.                  *)
StaleInv ==
    /\ pc \in {"setup", "start"} /\ authComplete => NoTokens
    /\ pc = "final" => Complete(conn) \/ NoTokens

IInv ==
    /\ TypeOK /\ ControlInv /\ ContextInv /\ TokenInv /\ StaleInv
    /\ SecuredAgreement

-----------------------------------------------------------------------------
(* The inductive invariant behind NothingLeftOver.  A server answers one   *)
(* attempt of a connection only, because it refuses a second START: before *)
(* the first token it has sent nothing that the attempt would reply to,    *)
(* and from then on client and server take turns.                          *)
Waiting == pc \in {"recv", "final"}

(* A call that has not sent its START finds only what earlier ones sent.   *)
EarlierInv ==
    pc \in {"setup", "start"} =>
        /\ sprog > 0 => sctx < opens
        /\ \A m \in Elems(toServer) : m.ctx < opens

(* A first token comes right after the START of its context.               *)
FirstTokenInv ==
    \A i \in 2 .. Len(toServer) :
        toServer[i].n = 1 => /\ toServer[i - 1].status = "START"
                             /\ toServer[i - 1].ctx = toServer[i].ctx

(* What the server reads first, before START and before a first token.     *)
UnreadInv ==
    /\ spc = "start" => toClient = <<>>
    /\ spc = "start" /\ toServer # <<>> =>
        /\ Head(toServer).status = "START"
        /\ Waiting /\ Head(toServer).ctx = conn => Len(toServer) = 2
    /\ spc = "step" /\ sprog = 0 /\ toServer # <<>> /\ Head(toServer).n = 1 =>
        /\ toClient = <<>>
        /\ Waiting /\ Head(toServer).ctx = conn => Len(toServer) = 1

TurnsInv ==
    Waiting /\ sprog > 0 /\ sctx = conn => Len(toServer) + Len(toClient) <= 1

LinkInv == EarlierInv /\ FirstTokenInv /\ UnreadInv /\ TurnsInv /\ NothingLeftOver
=============================================================================
