--------------------------- MODULE SaslNegotiation ---------------------------
(***************************************************************************)
(* One TSaslClientTransport (thrift/hive_metastore_demo) negotiating with  *)
(* a SASL server over a TCP link: open(), doSaslNegotiation(), the state   *)
(* of the TSaslClient it owns, close() and the destructor.                 *)
(*                                                                         *)
(* A call of open() is numbered, and the sasl_conn_t that sasl_client_new  *)
(* allocates during call c is the context c; 0 is the null pointer.  The   *)
(* mechanism is an exchange of Rounds client tokens: token n of a context  *)
(* is answered by the challenge n of the same context, until the server    *)
(* has token Rounds and answers COMPLETE.  A library that is handed a      *)
(* challenge of another context, or one out of turn, reports an error.     *)
(*                                                                         *)
(* A message is [status, ctx, n]; n = 0 is an empty payload.  BAD stands   *)
(* for BAD, ERROR and every status byte receiveSaslMessage refuses.        *)
(***************************************************************************)
EXTENDS Naturals, Sequences

CONSTANTS
    MaxOpens,   \* calls of open() the application makes (a bound)
    Rounds,     \* tokens the client sends in one complete exchange
    MaxFaults   \* reads that time out on a connection that stays up (a bound)

ASSUME BoundsAssumption == MaxOpens \in Nat /\ MaxFaults \in Nat
ASSUME RoundsAssumption == Rounds \in Nat \ {0}

Ctx == 1 .. MaxOpens
Statuses == {"START", "OK", "BAD", "COMPLETE"}
Messages == [status : Statuses, ctx : Ctx, n : 0 .. Rounds]
(* Mutant: a payload length that counts the 5 bytes of the header.         *)
MsgWithHeader(st, c, k) == [status |-> st, ctx |-> c, n |-> k + 5]

Msg(st, c, k) == [status |-> st, ctx |-> c, n |-> k]

VARIABLES
    pc,             \* where the client is in open()
    outcome,        \* how the last call of open() or close() ended
    opens,          \* calls of open() so far
    faults,         \* read timeouts so far
    conn,           \* TSasl::conn
    live,           \* contexts allocated by sasl_client_new and not disposed of
    sent,           \* tokens each context has produced
    clientStarted,  \* TSaslClient::clientStarted
    authComplete,   \* TSasl::authComplete
    isOpen,         \* transport_->isOpen()
    peerUp,         \* the server end of the connection is open
    toServer,       \* messages in flight to the server
    toClient,       \* messages in flight to the client
    spc,            \* where the server is in its own doSaslNegotiation()
    sctx,           \* the context whose tokens it has accepted
    sprog,          \* how many of them
    probe           \* its last challenge was empty

library == <<conn, live, sent, clientStarted, authComplete>>
link    == <<isOpen, peerUp, toServer, toClient>>
server  == <<spc, sctx, sprog, probe>>
vars    == <<pc, outcome, opens, faults, library, link, server>>

Init ==
    /\ pc = "idle" /\ outcome = "none"
    /\ opens = 0 /\ faults = 0
    /\ conn = 0 /\ live = {} /\ sent = [c \in Ctx |-> 0]
    /\ clientStarted = FALSE /\ authComplete = FALSE
    /\ isOpen \in BOOLEAN        \* main() opens the transport itself
    /\ peerUp = isOpen
    /\ toServer = <<>> /\ toClient = <<>>
    /\ spc = "start" /\ sctx = 0 /\ sprog = 0 /\ probe = FALSE

-----------------------------------------------------------------------------
(* The exception path of doSaslNegotiation: resetSaslNegotiationState()    *)
(* and the rethrow.  The connection is left as it is.                      *)

(* Mutant of it: a context that is not disposed of.                        *)
ResetLeaks ==
    /\ clientStarted' = FALSE
    /\ authComplete' = FALSE
    /\ conn' = 0
    /\ UNCHANGED live

ResetSaslContext ==
    /\ clientStarted' = FALSE
    /\ authComplete' = FALSE
    /\ conn' = 0
    /\ live' = live \ {conn}

(* Mutant: it is not thrown again, and open() returns normally.            *)
Swallow ==
    /\ pc' = "idle"
    /\ outcome' = "ok"
    /\ ResetSaslContext
    /\ UNCHANGED <<opens, sent>>

Throw ==
    /\ pc' = "idle"
    /\ outcome' = "failed"
    /\ ResetSaslContext
    /\ UNCHANGED <<opens, sent>>

(* A write to a connection whose other end is gone is lost, or fails.      *)
Written(msgs) == IF peerUp THEN toServer \o msgs ELSE toServer

-----------------------------------------------------------------------------
(* open(): transport_->open() if it is closed, then the negotiation.       *)

MayOpen == pc = "idle" /\ opens < MaxOpens /\ ~(outcome = "ok" /\ isOpen)

OpenOnOpenLink ==
    /\ MayOpen /\ isOpen
    /\ opens' = opens + 1
    /\ pc' = "setup" /\ outcome' = "pending"
    /\ UNCHANGED <<faults, library, link, server>>

OpenConnects ==
    /\ MayOpen /\ ~isOpen
    /\ opens' = opens + 1
    /\ pc' = "setup" /\ outcome' = "pending"
    /\ isOpen' = TRUE /\ peerUp' = TRUE
    /\ toServer' = <<>> /\ toClient' = <<>>
    /\ spc' = "start" /\ sctx' = 0 /\ sprog' = 0 /\ probe' = FALSE
    /\ UNCHANGED <<faults, library>>

(* transport_->open() throws outside the try block: nothing is reset.      *)
OpenRefused ==
    /\ MayOpen /\ ~isOpen
    /\ opens' = opens + 1
    /\ outcome' = "refused"
    /\ UNCHANGED <<pc, faults, library, link, server>>

(* sasl_client_new stores the new context over whatever conn held.         *)
SetupSucceeds ==
    /\ pc = "setup"
    /\ pc' = "start"
    /\ conn' = opens /\ live' = live \cup {opens}
    /\ UNCHANGED <<outcome, opens, faults, sent, clientStarted, authComplete,
                   link, server>>

(* It fails, having overwritten conn with a context the reset frees, or    *)
(* not having touched it.                                                  *)
SetupFails ==
    /\ pc = "setup"
    /\ pc' = "idle" /\ outcome' = "failed"
    /\ clientStarted' = FALSE /\ authComplete' = FALSE
    /\ conn' = 0 /\ live' \in {live, live \ {conn}}
    /\ UNCHANGED <<opens, faults, sent, link, server>>

(* handleSaslStartMessage: evaluateChallengeOrResponse(nullptr, 0) takes   *)
(* the sasl_client_start branch, or, when clientStarted is already set,    *)
(* the empty-challenge branch.                                             *)
Complete(c) == sent[c] = Rounds

AfterStart(complete) == IF complete THEN "final" ELSE "recv"

StartFirst ==
    /\ pc = "start" /\ ~clientStarted
    /\ sent' = [sent EXCEPT ![conn] = 1]
    /\ clientStarted' = TRUE
    /\ authComplete' = (authComplete \/ Rounds = 1)
    /\ toServer' = Written(<<Msg("START", conn, 0), Msg("OK", conn, 1)>>)
    /\ pc' = AfterStart(authComplete \/ Rounds = 1)
    /\ UNCHANGED <<outcome, opens, faults, conn, live, isOpen, peerUp,
                   toClient, server>>

StartAgain ==
    /\ pc = "start" /\ clientStarted
    /\ toServer' = Written(<<Msg("START", conn, 0), Msg("OK", conn, 0)>>)
    /\ pc' = AfterStart(authComplete)
    /\ UNCHANGED <<outcome, opens, faults, library, isOpen, peerUp,
                   toClient, server>>

(* sasl_client_start fails, or the write does (and may close the socket).  *)
StartFails ==
    /\ pc = "start"
    /\ \/ ~clientStarted /\ UNCHANGED isOpen
       \/ ~peerUp /\ isOpen' \in BOOLEAN
    /\ Throw
    /\ UNCHANGED <<faults, peerUp, toServer, toClient, server>>

-----------------------------------------------------------------------------
(* The loop of doSaslNegotiation: while (!sasl_->isComplete()).            *)

Receives(at) == pc = at /\ toClient # <<>> /\ toClient' = Tail(toClient)
Incoming == Head(toClient)

(* BAD, ERROR, an invalid status, START, or COMPLETE out of order.         *)
RecvUnexpected ==
    /\ Receives("recv") /\ Incoming.status # "OK"
    /\ Throw
    /\ UNCHANGED <<faults, isOpen, peerUp, toServer, server>>

(* Mutant: an empty challenge is read and not replied to.                  *)
RecvEmptyUnanswered ==
    /\ Receives("recv") /\ Incoming.status = "OK" /\ Incoming.n = 0
    /\ UNCHANGED <<pc, outcome, opens, faults, library, isOpen, peerUp,
                   toServer, server>>

(* An empty challenge is not shown to the library: SASL_CONTINUE.          *)
RecvEmptyChallenge ==
    /\ Receives("recv") /\ Incoming.status = "OK" /\ Incoming.n = 0
    /\ toServer' = Written(<<Msg("OK", conn, 0)>>)
    /\ UNCHANGED <<pc, outcome, opens, faults, library, isOpen, peerUp, server>>

(* sasl_client_step: the challenge answers the last token of this context. *)
Answers(m) == m.ctx = conn /\ m.n = sent[conn]

RecvChallenge ==
    /\ Receives("recv") /\ Incoming.status = "OK" /\ Incoming.n > 0
    /\ Answers(Incoming)
    /\ LET n == sent[conn] + 1
           complete == n = Rounds
       IN  /\ sent' = [sent EXCEPT ![conn] = n]
           /\ authComplete' = complete
           /\ toServer' = Written(<<Msg(IF complete THEN "COMPLETE" ELSE "OK",
                                        conn, n)>>)
           /\ pc' = AfterStart(complete)
    /\ UNCHANGED <<outcome, opens, faults, conn, live, clientStarted,
                   isOpen, peerUp, server>>

(* The library rejects the challenge, or the reply cannot be written.      *)
RecvFails ==
    /\ Receives("recv") /\ Incoming.status = "OK"
    /\ \/ Incoming.n > 0 /\ UNCHANGED isOpen
       \/ ~peerUp /\ isOpen' \in BOOLEAN
    /\ Throw
    /\ UNCHANGED <<faults, peerUp, toServer, server>>

(* Mutant: OK is as good as COMPLETE.                                      *)
FinalAcceptsOk(st) == st \in {"OK", "COMPLETE"}

(* After the loop the client waits for the server's COMPLETE.              *)
FinalAccepts(st) == st = "COMPLETE"

FinalComplete ==
    /\ Receives("final") /\ FinalAccepts(Incoming.status)
    /\ pc' = "idle" /\ outcome' = "ok"
    /\ UNCHANGED <<opens, faults, library, isOpen, peerUp, toServer, server>>

FinalUnexpected ==
    /\ Receives("final") /\ ~FinalAccepts(Incoming.status)
    /\ Throw
    /\ UNCHANGED <<faults, isOpen, peerUp, toServer, server>>

(* readAll meets the end of the stream.  TSocket stays open.               *)
EndOfStream ==
    /\ pc \in {"recv", "final"} /\ toClient = <<>> /\ ~peerUp
    /\ Throw
    /\ UNCHANGED <<faults, link, server>>

(* readAll times out before the first byte of a message arrives.           *)
ReadTimesOut ==
    /\ pc \in {"recv", "final"} /\ faults < MaxFaults
    /\ faults' = faults + 1
    /\ Throw
    /\ UNCHANGED <<link, server>>

-----------------------------------------------------------------------------
(* close() closes the transport and nothing else.                          *)
Disconnect ==
    /\ isOpen' = FALSE /\ peerUp' = FALSE
    /\ toServer' = <<>> /\ toClient' = <<>>

Close ==
    /\ pc = "idle" /\ isOpen
    /\ outcome' = "closed"
    /\ Disconnect
    /\ UNCHANGED <<pc, opens, faults, library, server>>

(* ~TSasl disposes of the context conn points to.                          *)
Destroy ==
    /\ pc = "idle"
    /\ pc' = "gone" /\ outcome' = "closed"
    /\ conn' = 0 /\ live' = live \ {conn}
    /\ Disconnect
    /\ UNCHANGED <<opens, faults, sent, clientStarted, authComplete, server>>

Finished == pc = "gone" /\ UNCHANGED vars

-----------------------------------------------------------------------------
(* The server: the isClient_ = FALSE side of doSaslNegotiation over        *)
(* TSaslServer::evaluateChallengeOrResponse.                               *)

Serves(at) == spc = at /\ peerUp /\ toServer # <<>> /\ toServer' = Tail(toServer)
Request == Head(toServer)
IsResponse(m) == m.status \in {"OK", "COMPLETE"}

Reply(m) == toClient' = Append(toClient, m)

ServerStart ==
    /\ Serves("start") /\ Request.status = "START"
    /\ spc' = "step"
    /\ UNCHANGED <<pc, outcome, opens, faults, library, isOpen, peerUp,
                   toClient, sctx, sprog, probe>>

(* The token is the next one of the context the server is talking to.      *)
Expected(m) ==
    /\ IsResponse(m) /\ ~probe
    /\ m.n = sprog + 1
    /\ sprog = 0 \/ m.ctx = sctx

ServerAccepts ==
    /\ Serves("step") /\ Expected(Request)
    /\ sctx' = Request.ctx /\ sprog' = Request.n
    /\ \/ /\ Request.n = Rounds
          /\ spc' = "done" /\ probe' = FALSE
          /\ Reply(Msg("COMPLETE", Request.ctx, 0))
       \/ /\ Request.n < Rounds
          /\ spc' = "step" /\ probe' = FALSE
          /\ Reply(Msg("OK", Request.ctx, Request.n))
       \/ /\ Request.n < Rounds
          /\ spc' = "step" /\ probe' = TRUE
          /\ Reply(Msg("OK", Request.ctx, 0))
    /\ UNCHANGED <<pc, outcome, opens, faults, library, isOpen, peerUp>>

(* The empty response to an empty challenge; the real challenge follows.   *)
ServerAfterProbe ==
    /\ Serves("step") /\ probe /\ IsResponse(Request) /\ Request.n = 0
    /\ probe' = FALSE
    /\ Reply(Msg("OK", sctx, sprog))
    /\ UNCHANGED <<pc, outcome, opens, faults, library, isOpen, peerUp,
                   spc, sctx, sprog>>

(* No initial token: the mechanism asks for one with an empty challenge.   *)
ServerAsksAgain ==
    /\ Serves("step") /\ sprog = 0 /\ IsResponse(Request) /\ Request.n = 0
    /\ Reply(Msg("OK", Request.ctx, 0))
    /\ UNCHANGED <<pc, outcome, opens, faults, library, isOpen, peerUp, server>>

(* Any failure: bad credentials, a token or a status it does not expect.   *)
(* It may say so before it closes the connection.                          *)
ServerRejects ==
    /\ spc \in {"start", "step"} /\ peerUp /\ toServer # <<>>
    /\ spc' = "failed"
    /\ peerUp' = FALSE /\ toServer' = <<>>
    /\ toClient' \in {toClient, Append(toClient, Msg("BAD", Request.ctx, 0))}
    /\ UNCHANGED <<pc, outcome, opens, faults, library, isOpen,
                   sctx, sprog, probe>>

(* After its negotiation the server reads Thrift frames: a second START is *)
(* taken for the length of one, and waited for or refused.                 *)
ServerMisreads ==
    /\ spc = "done" /\ peerUp /\ toServer # <<>>
    /\ toServer' = <<>> /\ peerUp' \in BOOLEAN
    /\ UNCHANGED <<pc, outcome, opens, faults, library, isOpen, toClient, server>>

(* The server dies; a part of what it sent still arrives.                  *)
ServerDies ==
    /\ peerUp
    /\ peerUp' = FALSE /\ toServer' = <<>>
    /\ \E k \in 0 .. Len(toClient) : toClient' = SubSeq(toClient, 1, k)
    /\ UNCHANGED <<pc, outcome, opens, faults, library, isOpen, server>>

-----------------------------------------------------------------------------
ClientStep ==
    \/ SetupSucceeds \/ SetupFails
    \/ StartFirst \/ StartAgain \/ StartFails
    \/ RecvUnexpected \/ RecvEmptyChallenge \/ RecvChallenge \/ RecvFails
    \/ FinalComplete \/ FinalUnexpected \/ EndOfStream

ServerStep ==
    \/ ServerStart \/ ServerAccepts \/ ServerAfterProbe \/ ServerAsksAgain
    \/ ServerRejects \/ ServerMisreads

Next ==
    \/ OpenOnOpenLink \/ OpenConnects \/ OpenRefused
    \/ ClientStep \/ ReadTimesOut
    \/ Close \/ Destroy \/ Finished
    \/ ServerStep \/ ServerDies

Spec == Init /\ [][Next]_vars

(* A thread inside open() keeps running and the server answers what it     *)
(* reads; nobody owes a call of open() or close(), a timeout or a crash.   *)
Fairness == WF_vars(ClientStep) /\ WF_vars(ServerStep)

FairSpec == Spec /\ Fairness

-----------------------------------------------------------------------------
Pcs == {"idle", "setup", "start", "recv", "final", "gone"}

(* The types of the variables, and the bounds.                             *)
FlagsOK ==
    /\ clientStarted \in BOOLEAN /\ authComplete \in BOOLEAN
    /\ isOpen \in BOOLEAN /\ peerUp \in BOOLEAN /\ probe \in BOOLEAN

ValuesOK ==
    /\ pc \in Pcs
    /\ outcome \in {"none", "pending", "ok", "failed", "refused", "closed"}
    /\ opens \in 0 .. MaxOpens /\ faults \in 0 .. MaxFaults
    /\ conn \in 0 .. MaxOpens /\ live \subseteq Ctx
    /\ sent \in [Ctx -> 0 .. Rounds]
    /\ spc \in {"start", "step", "done", "failed"}
    /\ sctx \in 0 .. MaxOpens /\ sprog \in 0 .. Rounds

LinksOK == toServer \in Seq(Messages) /\ toClient \in Seq(Messages)

TypeOK == FlagsOK /\ ValuesOK /\ LinksOK

(* When open() has returned normally and the transport has not been        *)
(* closed, the server has authenticated the very context the client holds, *)
(* and that context has been through the whole exchange: no message left   *)
(* over from an earlier attempt, and no flag left over from an earlier     *)
(* connection, makes doSaslNegotiation return early.                       *)
SecuredAgreement ==
    outcome = "ok" =>
        /\ isOpen
        /\ spc = "done" /\ sctx = conn
        /\ conn \in live /\ Complete(conn)

(* The receive loop runs only after a first token has gone out: an attempt *)
(* that follows a failed one starts the mechanism again, and an attempt    *)
(* that finds clientStarted stale never waits for a challenge.             *)
LoopHasToken == pc = "recv" => sent[conn] \in 1 .. Rounds - 1

(* When open() has returned normally, nothing of the negotiation is left   *)
(* on the connection, in either direction: the first frames of the data    *)
(* phase are not preceded by a message of this attempt or an earlier one.  *)
NothingLeftOver == outcome = "ok" => toClient = <<>> /\ toServer = <<>>

(* A negotiation that fails frees the context it allocated: whatever is    *)
(* allocated and no longer reachable through conn went through a complete  *)
(* exchange.                                                               *)
FailureFreesContext == \A c \in live : c = conn \/ Complete(c)

(* open() returns, normally or by an exception, whatever the server does,  *)
(* as long as no read times out on a connection that stays up.  (After a   *)
(* timeout, a retry on the same connection may wait for ever.)             *)
OpenReturns ==
    (pc \in {"setup", "start", "recv", "final"}) ~> (pc = "idle" \/ faults > 0)

(* TSasl.h:65, isComplete "Determines whether the authentication exchange  *)
(* has completed": when it says so, the exchange of the current context    *)
(* has.                                                                    *)
IsCompleteIsTrue == authComplete /\ conn # 0 => Complete(conn)

(* TSaslTransport.cpp:115, a retry of open() "would start a new connection *)
(* negotiation": what the server sees of a retry is a new negotiation.     *)
RetryIsNewNegotiation ==
    pc = "setup" => spc = "start" /\ toServer = <<>> /\ toClient = <<>>
=============================================================================
