------------------------ MODULE SaslNegotiation_proofs ------------------------
(***************************************************************************)
(* Proofs about SaslNegotiation and about the handshake it implements.     *)
(***************************************************************************)
EXTENDS SaslHandshake, SequenceTheorems, TLAPS

(* A sequence that is empty has no messages, and the messages of the head  *)
(* and of the tail are messages of the sequence.                           *)
LEMMA ElemsHeadTail ==
    ASSUME NEW S, NEW s \in Seq(S)
    PROVE  /\ Elems(<<>>) = {}
           /\ Elems(s) \subseteq S
           /\ s # <<>> => /\ Head(s) \in Elems(s)
                          /\ Tail(s) \in Seq(S)
                          /\ Elems(Tail(s)) \subseteq Elems(s)
<1>1. Elems(<<>>) = {}
  BY DEF Elems
<1>2. Elems(s) \subseteq S
  BY ElementOfSeq DEF Elems
<1>3. ASSUME s # <<>>
      PROVE  /\ Head(s) \in Elems(s)
             /\ Tail(s) \in Seq(S)
             /\ Elems(Tail(s)) \subseteq Elems(s)
  <2>1. Len(s) \in Nat \ {0} /\ Head(s) = s[1]
    BY <1>3, EmptySeq
  <2>2. Head(s) \in Elems(s)
    BY <2>1 DEF Elems
  <2>3. /\ Tail(s) \in Seq(S)
        /\ Len(Tail(s)) = Len(s) - 1
        /\ \A i \in 1 .. Len(Tail(s)) : Tail(s)[i] = s[i+1]
    BY <1>3, HeadTailProperties
  <2>4. Elems(Tail(s)) \subseteq Elems(s)
    BY <2>1, <2>3 DEF Elems
  <2> QED
    BY <2>2, <2>3, <2>4
<1> QED
  BY <1>1, <1>2, <1>3

(* Appending and concatenating add exactly the messages appended.          *)
LEMMA ElemsConcat ==
    ASSUME NEW S, NEW s \in Seq(S), NEW t \in Seq(S)
    PROVE  /\ s \o t \in Seq(S)
           /\ Elems(s \o t) = Elems(s) \cup Elems(t)
<1>1. /\ s \o t \in Seq(S)
      /\ Len(s \o t) = Len(s) + Len(t)
      /\ \A i \in 1 .. Len(s) + Len(t) :
            (s \o t)[i] = IF i <= Len(s) THEN s[i] ELSE t[i - Len(s)]
  BY ConcatProperties
<1>2. Len(s) \in Nat /\ Len(t) \in Nat
  OBVIOUS
<1>3. Elems(s \o t) \subseteq Elems(s) \cup Elems(t)
  BY <1>1, <1>2 DEF Elems
<1>4. Elems(s) \subseteq Elems(s \o t)
  BY <1>1, <1>2 DEF Elems
<1>5. Elems(t) \subseteq Elems(s \o t)
  <2> SUFFICES ASSUME NEW i \in 1 .. Len(t)
               PROVE  t[i] \in Elems(s \o t)
    BY DEF Elems
  <2>1. i + Len(s) \in 1 .. Len(s \o t) /\ (s \o t)[i + Len(s)] = t[i]
    BY <1>1, <1>2
  <2> QED
    BY <2>1 DEF Elems
<1> QED
  BY <1>1, <1>3, <1>4, <1>5

LEMMA ElemsAppend ==
    ASSUME NEW S, NEW s \in Seq(S), NEW m \in S
    PROVE  /\ Append(s, m) \in Seq(S)
           /\ Elems(Append(s, m)) = Elems(s) \cup {m}
<1>1. Append(s, m) \in Seq(S)
  OBVIOUS
<1>2. Len(Append(s, m)) = Len(s) + 1 /\ Len(s) \in Nat
  OBVIOUS
<1>3. /\ \A i \in 1 .. Len(s) : Append(s, m)[i] = s[i]
      /\ Append(s, m)[Len(s) + 1] = m
  OBVIOUS
<1>4. Elems(Append(s, m)) \subseteq Elems(s) \cup {m}
  BY <1>2, <1>3 DEF Elems
<1>5. Elems(s) \cup {m} \subseteq Elems(Append(s, m))
  BY <1>2, <1>3 DEF Elems
<1> QED
  BY <1>1, <1>4, <1>5

(* A prefix has no message the sequence does not have.                     *)
LEMMA ElemsPrefix ==
    ASSUME NEW S, NEW s \in Seq(S), NEW k \in 0 .. Len(s)
    PROVE  /\ SubSeq(s, 1, k) \in Seq(S)
           /\ Elems(SubSeq(s, 1, k)) \subseteq Elems(s)
<1>1. \A i \in 1 .. k : s[i] \in S
  BY ElementOfSeq
<1>2. /\ SubSeq(s, 1, k) \in Seq(S)
      /\ Len(SubSeq(s, 1, k)) = IF 1 <= k THEN k - 1 + 1 ELSE 0
      /\ \A i \in 1 .. k - 1 + 1 : SubSeq(s, 1, k)[i] = s[1 + i - 1]
  BY <1>1, SubSeqProperties
<1>3. Elems(SubSeq(s, 1, k)) \subseteq Elems(s)
  BY <1>2 DEF Elems
<1> QED
  BY <1>2, <1>3

(* Sequences written out element by element.                               *)
LEMMA ElemsShort ==
    ASSUME NEW S, NEW m \in S, NEW k \in S
    PROVE  /\ <<m>> \in Seq(S) /\ Elems(<<m>>) = {m}
           /\ <<m, k>> \in Seq(S) /\ Elems(<<m, k>>) = {m, k}
<1>1. <<m>> \in Seq(S) /\ Len(<<m>>) = 1 /\ <<m>>[1] = m
  OBVIOUS
<1>2. /\ <<m, k>> \in Seq(S) /\ Len(<<m, k>>) = 2
      /\ <<m, k>>[1] = m /\ <<m, k>>[2] = k
  OBVIOUS
<1>3. Elems(<<m>>) = {m}
  BY <1>1 DEF Elems
<1>4. Elems(<<m, k>>) = {m, k}
  <2>1. 1 .. 2 = {1, 2}
    OBVIOUS
  <2> QED
    BY <1>2, <2>1 DEF Elems
<1> QED
  BY <1>1, <1>2, <1>3, <1>4

(* What is in flight is a message.                                         *)
LEMMA InFlight ==
    ASSUME TypeOK
    PROVE  \A m \in Elems(toServer) \cup Elems(toClient) :
               /\ m \in Messages
               /\ m.status \in Statuses /\ m.ctx \in Ctx /\ m.n \in 0 .. Rounds
<1>1. toServer \in Seq(Messages) /\ toClient \in Seq(Messages)
  BY DEF TypeOK, LinksOK
<1>2. Elems(toServer) \subseteq Messages /\ Elems(toClient) \subseteq Messages
  BY <1>1, ElemsHeadTail
<1> QED
  BY <1>2 DEF Messages

(* What a write of one or of two messages may leave in flight.             *)
LEMMA Sends ==
    ASSUME LinksOK, NEW m \in Messages, NEW k \in Messages
    PROVE  /\ Written(<<m>>) \in Seq(Messages)
           /\ Elems(Written(<<m>>)) \subseteq Elems(toServer) \cup {m}
           /\ Written(<<m, k>>) \in Seq(Messages)
           /\ Elems(Written(<<m, k>>)) \subseteq Elems(toServer) \cup {m, k}
<1>1. toServer \in Seq(Messages)
  BY DEF LinksOK
<1>2. /\ <<m>> \in Seq(Messages) /\ Elems(<<m>>) = {m}
      /\ <<m, k>> \in Seq(Messages) /\ Elems(<<m, k>>) = {m, k}
  BY ElemsShort
<1>3. \A t \in Seq(Messages) :
          /\ Written(t) \in Seq(Messages)
          /\ Elems(Written(t)) \subseteq Elems(toServer) \cup Elems(t)
  <2> SUFFICES ASSUME NEW t \in Seq(Messages)
               PROVE  /\ Written(t) \in Seq(Messages)
                      /\ Elems(Written(t)) \subseteq Elems(toServer) \cup Elems(t)
    OBVIOUS
  <2>1. /\ toServer \o t \in Seq(Messages)
        /\ Elems(toServer \o t) = Elems(toServer) \cup Elems(t)
    BY <1>1, ElemsConcat
  <2> QED
    BY <1>1, <2>1 DEF Written
<1> QED
  BY <1>2, <1>3, Zenon

-----------------------------------------------------------------------------
(* The initial states satisfy the invariant.                               *)
LEMMA InitEstablishes == Init => IInv
<1> SUFFICES ASSUME Init PROVE IInv
  OBVIOUS
<1> USE BoundsAssumption, RoundsAssumption
<1>1. toServer = <<>> /\ toClient = <<>> /\ Elems(<<>>) = {}
  BY DEF Init, Elems
<1>2. TypeOK
  <2>1. FlagsOK
    BY Zenon DEF Init, FlagsOK
  <2>2. ValuesOK
    BY DEF Init, ValuesOK, Pcs, Ctx
  <2>3. LinksOK
    BY <1>1 DEF LinksOK
  <2> QED
    BY <2>1, <2>2, <2>3 DEF TypeOK
<1>3. ControlInv
  BY DEF Init, ControlInv, Negotiating
<1>4. ContextInv
  BY DEF Init, ContextInv, Negotiating, Ctx, Complete
<1>5. TokenInv
  BY <1>1 DEF Init, TokenInv
<1>6. StaleInv
  BY <1>1 DEF Init, StaleInv
<1>7. SecuredAgreement
  BY DEF Init, SecuredAgreement
<1> QED
  BY <1>2, <1>3, <1>4, <1>5, <1>6, <1>7 DEF IInv

(* The exception path: a step that throws, takes messages only away and    *)
(* leaves the server alone preserves the invariant.                        *)
LEMMA ThrowPreserves ==
    ASSUME IInv, Throw, Negotiating,
           faults' \in 0 .. MaxFaults, isOpen' \in BOOLEAN,
           UNCHANGED <<peerUp, toServer, server>>,
           toClient' \in Seq(Messages), Elems(toClient') \subseteq Elems(toClient)
    PROVE  IInv'
<1> USE BoundsAssumption, RoundsAssumption DEF Throw, ResetSaslContext, IInv
<1>1. TypeOK'
  <2>1. FlagsOK'
    BY Zenon DEF TypeOK, FlagsOK, server
  <2>2. ValuesOK'
    BY DEF TypeOK, ValuesOK, server, Pcs
  <2>3. LinksOK'
    BY Zenon DEF TypeOK, LinksOK
  <2> QED
    BY <2>1, <2>2, <2>3 DEF TypeOK
<1>2. ControlInv'
  BY DEF ControlInv, Negotiating
<1>3. ContextInv'
  BY DEF ContextInv, Negotiating, Complete, TypeOK, Ctx
<1>4. TokenInv'
  BY DEF TokenInv, server
<1>5. StaleInv'
  BY DEF StaleInv
<1>6. SecuredAgreement'
  BY DEF SecuredAgreement
<1> QED
  BY <1>1, <1>2, <1>3, <1>4, <1>5, <1>6

(* One lemma per action of the client, in the order of the module.       *)
(*                                                                         *)
(* open(): the context that the call will allocate has sent nothing yet,   *)
(* and a client whose flags are stale finds a closed transport, so that    *)
(* its server is a new one.                                                *)
LEMMA OpenOnOpenLinkPreserves ==
    ASSUME IInv, OpenOnOpenLink
    PROVE  IInv'
<1> USE BoundsAssumption, RoundsAssumption
    DEF IInv, OpenOnOpenLink, MayOpen, library, link, server
<1>1. TypeOK'
  <2>1. FlagsOK'
    BY Zenon DEF TypeOK, FlagsOK
  <2>2. ValuesOK'
    BY DEF TypeOK, ValuesOK, Pcs, Ctx
  <2>3. LinksOK'
    BY Zenon DEF TypeOK, LinksOK
  <2> QED
    BY <2>1, <2>2, <2>3 DEF TypeOK
<1>2. ControlInv'
  BY DEF ControlInv, Negotiating
<1>3. ContextInv'
  BY DEF ContextInv, Negotiating, Complete, TypeOK, ValuesOK, Ctx
<1>4. TokenInv'
  BY InFlight DEF TokenInv, TypeOK, ValuesOK, Ctx
<1>5. StaleInv'
  BY DEF StaleInv, ControlInv
<1>6. SecuredAgreement'
  BY DEF SecuredAgreement, Complete
<1> QED
  BY <1>1, <1>2, <1>3, <1>4, <1>5, <1>6

LEMMA OpenConnectsPreserves ==
    ASSUME IInv, OpenConnects
    PROVE  IInv'
<1> USE BoundsAssumption, RoundsAssumption DEF IInv, OpenConnects, MayOpen, library
<1>0. Elems(<<>>) = {}
  BY DEF Elems
<1>1. TypeOK'
  <2>1. FlagsOK'
    BY Zenon DEF TypeOK, FlagsOK
  <2>2. ValuesOK'
    BY DEF TypeOK, ValuesOK, Pcs, Ctx
  <2>3. LinksOK'
    BY DEF TypeOK, LinksOK
  <2> QED
    BY <2>1, <2>2, <2>3 DEF TypeOK
<1>2. ControlInv'
  BY DEF ControlInv, Negotiating
<1>3. ContextInv'
  BY DEF ContextInv, Negotiating, Complete, TypeOK, ValuesOK, Ctx
<1>4. TokenInv'
  BY <1>0 DEF TokenInv
<1>5. StaleInv'
  BY <1>0 DEF StaleInv, NoTokens
<1>6. SecuredAgreement'
  BY DEF SecuredAgreement, Complete
<1> QED
  BY <1>1, <1>2, <1>3, <1>4, <1>5, <1>6

LEMMA OpenRefusedPreserves ==
    ASSUME IInv, OpenRefused
    PROVE  IInv'
<1> USE BoundsAssumption, RoundsAssumption
    DEF IInv, OpenRefused, MayOpen, library, link, server
<1>1. TypeOK'
  <2>1. FlagsOK'
    BY Zenon DEF TypeOK, FlagsOK
  <2>2. ValuesOK'
    BY DEF TypeOK, ValuesOK, Pcs, Ctx
  <2>3. LinksOK'
    BY Zenon DEF TypeOK, LinksOK
  <2> QED
    BY <2>1, <2>2, <2>3 DEF TypeOK
<1>2. ControlInv'
  BY DEF ControlInv, Negotiating
<1>3. ContextInv'
  BY DEF ContextInv, Negotiating, Complete, TypeOK, ValuesOK, Ctx
<1>4. TokenInv'
  BY InFlight DEF TokenInv, TypeOK, ValuesOK, Ctx
<1>5. StaleInv'
  BY DEF StaleInv, NoTokens
<1>6. SecuredAgreement'
  BY DEF SecuredAgreement, Complete
<1> QED
  BY <1>1, <1>2, <1>3, <1>4, <1>5, <1>6

(* sasl_client_new: the context that conn loses went through a complete    *)
(* exchange, on an earlier connection.                                     *)
LEMMA SetupSucceedsPreserves ==
    ASSUME IInv, SetupSucceeds
    PROVE  IInv'
<1> USE BoundsAssumption, RoundsAssumption
    DEF IInv, SetupSucceeds, link, server
<1>1. TypeOK'
  <2>1. FlagsOK'
    BY Zenon DEF TypeOK, FlagsOK
  <2>2. ValuesOK'
    BY DEF TypeOK, ValuesOK, Pcs, Ctx, ContextInv, Negotiating
  <2>3. LinksOK'
    BY Zenon DEF TypeOK, LinksOK
  <2> QED
    BY <2>1, <2>2, <2>3 DEF TypeOK
<1>2. ControlInv'
  BY DEF ControlInv, Negotiating
<1>3. ContextInv'
  BY DEF ContextInv, Negotiating, Complete, TypeOK, ValuesOK, Ctx
<1>4. TokenInv'
  BY DEF TokenInv
<1>5. StaleInv'
  BY DEF StaleInv, NoTokens
<1>6. SecuredAgreement'
  BY DEF SecuredAgreement, ControlInv
<1> QED
  BY <1>1, <1>2, <1>3, <1>4, <1>5, <1>6

LEMMA SetupFailsPreserves ==
    ASSUME IInv, SetupFails
    PROVE  IInv'
<1> USE BoundsAssumption, RoundsAssumption
    DEF IInv, SetupFails, link, server
<1>1. TypeOK'
  <2>1. FlagsOK'
    BY Zenon DEF TypeOK, FlagsOK
  <2>2. ValuesOK'
    BY DEF TypeOK, ValuesOK, Pcs, Ctx
  <2>3. LinksOK'
    BY Zenon DEF TypeOK, LinksOK
  <2> QED
    BY <2>1, <2>2, <2>3 DEF TypeOK
<1>2. ControlInv'
  BY DEF ControlInv, Negotiating
<1>3. ContextInv'
  BY DEF ContextInv, Negotiating, Complete, TypeOK, ValuesOK, Ctx
<1>4. TokenInv'
  BY DEF TokenInv
<1>5. StaleInv'
  BY DEF StaleInv
<1>6. SecuredAgreement'
  BY DEF SecuredAgreement
<1> QED
  BY <1>1, <1>2, <1>3, <1>4, <1>5, <1>6

(* The first token of a context: with two rounds or more the exchange is   *)
(* not over, so the client enters the loop.                                *)
LEMMA StartFirstPreserves ==
    ASSUME IInv, StartFirst, Rounds >= 2
    PROVE  IInv'
<1> USE BoundsAssumption, RoundsAssumption DEF IInv
<1>0. /\ pc = "start" /\ ~clientStarted /\ clientStarted' = TRUE
      /\ sent' = [sent EXCEPT ![conn] = 1]
      /\ UNCHANGED <<outcome, opens, faults, conn, live, isOpen, peerUp,
                     toClient, spc, sctx, sprog, probe>>
  BY Zenon DEF StartFirst, server
<1> DEFINE start == Msg("START", conn, 0)
           first == Msg("OK", conn, 1)
<1>1. conn = opens /\ conn \in Ctx /\ conn \in live
  BY <1>0 DEF ContextInv, TypeOK, ValuesOK, Ctx
<1>2. ~authComplete /\ pc' = "recv" /\ authComplete' = FALSE
  <2>1. ~authComplete
    BY <1>0, Zenon DEF ControlInv
  <2>2. ~(authComplete \/ Rounds = 1)
    BY <2>1
  <2> QED
    BY <2>1, <2>2, Zenon DEF StartFirst, AfterStart
<1>3. /\ start \in Messages /\ start.ctx = conn /\ start.n = 0
      /\ first \in Messages /\ first.ctx = conn /\ first.n = 1
  BY <1>0, <1>1 DEF Messages, Msg, Statuses
<1> HIDE DEF start, first
<1>4. /\ toServer' \in Seq(Messages)
      /\ Elems(toServer') \subseteq Elems(toServer) \cup {start, first}
  <2>1. toServer' = Written(<<start, first>>)
    BY Zenon DEF StartFirst, start, first
  <2> QED
    BY <1>3, <2>1, Sends DEF TypeOK
<1>5. TypeOK'
  <2>1. FlagsOK'
    BY <1>0, <1>2, Zenon DEF TypeOK, FlagsOK
  <2>2. ValuesOK'
    <3>1. sent \in [Ctx -> 0 .. Rounds] /\ 1 \in 0 .. Rounds
      BY DEF TypeOK, ValuesOK
    <3>2. sent' \in [Ctx -> 0 .. Rounds]
      BY <1>0, <3>1
    <3> QED
      BY <1>0, <1>2, <3>2 DEF TypeOK, ValuesOK, Pcs
  <2>3. LinksOK'
    BY <1>0, <1>4, Zenon DEF TypeOK, LinksOK
  <2> QED
    BY <2>1, <2>2, <2>3 DEF TypeOK
<1>6. ControlInv'
  BY <1>0, <1>2 DEF ControlInv, Negotiating
<1>7. ContextInv'
  BY <1>0, <1>1, <1>2 DEF ContextInv, Negotiating, Complete, TypeOK, ValuesOK, Ctx
<1>8. TokenInv'
  <2>1. \A m \in Elems(toServer') : m.ctx <= opens'
    BY <1>0, <1>1, <1>3, <1>4 DEF TokenInv, TypeOK, ValuesOK, Ctx
  <2>2. ~(sent'[conn'] >= 2)
    BY <1>0, <1>1 DEF TypeOK, ValuesOK
  <2> QED
    BY <1>0, <2>1, <2>2 DEF TokenInv
<1>9. StaleInv'
  BY <1>0, <1>2 DEF StaleInv
<1>10. SecuredAgreement'
  BY <1>0 DEF SecuredAgreement, ControlInv, Negotiating
<1> QED
  BY <1>5, <1>6, <1>7, <1>8, <1>9, <1>10

(* A client whose flags are stale: no token has reached the server, and    *)
(* what it sends now is none.                                              *)
LEMMA StartAgainPreserves ==
    ASSUME IInv, StartAgain
    PROVE  IInv'
<1> USE BoundsAssumption, RoundsAssumption DEF IInv
<1>0. /\ pc = "start" /\ clientStarted
      /\ UNCHANGED <<outcome, opens, faults, conn, live, sent, clientStarted,
                     authComplete, isOpen, peerUp, toClient,
                     spc, sctx, sprog, probe>>
  BY Zenon DEF StartAgain, library, server
<1> DEFINE start == Msg("START", conn, 0)
           empty == Msg("OK", conn, 0)
<1>1. conn = opens /\ conn \in Ctx /\ sent[conn] = 0
  BY <1>0 DEF ContextInv, TypeOK, ValuesOK, Ctx
<1>2. authComplete /\ pc' = "final"
  <2>1. authComplete
    BY <1>0, Zenon DEF ControlInv
  <2> QED
    BY <2>1, Zenon DEF StartAgain, AfterStart
<1>3. NoTokens
  BY <1>0, <1>2 DEF StaleInv
<1>4. /\ start \in Messages /\ start.ctx = conn /\ start.n = 0
      /\ empty \in Messages /\ empty.ctx = conn /\ empty.n = 0
  BY <1>1 DEF Messages, Msg, Statuses
<1> HIDE DEF start, empty
<1>5. /\ toServer' \in Seq(Messages)
      /\ Elems(toServer') \subseteq Elems(toServer) \cup {start, empty}
  <2>1. toServer' = Written(<<start, empty>>)
    BY Zenon DEF StartAgain, start, empty
  <2> QED
    BY <1>4, <2>1, Sends DEF TypeOK
<1>6. TypeOK'
  <2>1. FlagsOK'
    BY <1>0, Zenon DEF TypeOK, FlagsOK
  <2>2. ValuesOK'
    BY <1>0, <1>2 DEF TypeOK, ValuesOK, Pcs
  <2>3. LinksOK'
    BY <1>0, <1>5, Zenon DEF TypeOK, LinksOK
  <2> QED
    BY <2>1, <2>2, <2>3 DEF TypeOK
<1>7. ControlInv'
  BY <1>0, <1>2 DEF ControlInv, Negotiating
<1>8. ContextInv'
  BY <1>0, <1>1, <1>2 DEF ContextInv, Negotiating, Complete
<1>9. TokenInv'
  BY <1>0, <1>1, <1>2, <1>4, <1>5 DEF TokenInv, TypeOK, ValuesOK
<1>10. StaleInv'
  BY <1>0, <1>2, <1>3, <1>4, <1>5 DEF StaleInv, NoTokens
<1>11. SecuredAgreement'
  BY <1>0 DEF SecuredAgreement, ControlInv, Negotiating
<1> QED
  BY <1>6, <1>7, <1>8, <1>9, <1>10, <1>11

(* A received message was in flight; what is left was in flight too.       *)
LEMMA Receiving ==
    ASSUME LinksOK, toClient # <<>>, toClient' = Tail(toClient)
    PROVE  /\ Incoming \in Elems(toClient)
           /\ toClient' \in Seq(Messages)
           /\ Elems(toClient') \subseteq Elems(toClient)
BY ElemsHeadTail DEF LinksOK, Incoming

LEMMA RecvEmptyChallengePreserves ==
    ASSUME IInv, RecvEmptyChallenge
    PROVE  IInv'
<1> USE BoundsAssumption, RoundsAssumption DEF IInv
<1>0. /\ pc = "recv" /\ toClient # <<>> /\ toClient' = Tail(toClient)
      /\ UNCHANGED <<pc, outcome, opens, faults, conn, live, sent,
                     clientStarted, authComplete, isOpen, peerUp,
                     spc, sctx, sprog, probe>>
  BY Zenon DEF RecvEmptyChallenge, Receives, library, server
<1> DEFINE empty == Msg("OK", conn, 0)
<1>1. conn = opens /\ conn \in Ctx
  BY <1>0 DEF ContextInv, TypeOK, ValuesOK, Ctx
<1>2. /\ toClient' \in Seq(Messages)
      /\ Elems(toClient') \subseteq Elems(toClient)
  BY <1>0, Receiving DEF TypeOK
<1>3. empty \in Messages /\ empty.ctx = conn /\ empty.n = 0
  BY <1>1 DEF Messages, Msg, Statuses
<1> HIDE DEF empty
<1>4. /\ toServer' \in Seq(Messages)
      /\ Elems(toServer') \subseteq Elems(toServer) \cup {empty}
  <2>1. toServer' = Written(<<empty>>)
    BY Zenon DEF RecvEmptyChallenge, empty
  <2> QED
    BY <1>3, <2>1, Sends DEF TypeOK
<1>5. TypeOK'
  <2>1. FlagsOK'
    BY <1>0, Zenon DEF TypeOK, FlagsOK
  <2>2. ValuesOK'
    BY <1>0 DEF TypeOK, ValuesOK
  <2>3. LinksOK'
    BY <1>2, <1>4, Zenon DEF LinksOK
  <2> QED
    BY <2>1, <2>2, <2>3 DEF TypeOK
<1>6. ControlInv'
  BY <1>0 DEF ControlInv, Negotiating
<1>7. ContextInv'
  BY <1>0 DEF ContextInv, Negotiating, Complete
<1>8. TokenInv'
  BY <1>0, <1>1, <1>2, <1>3, <1>4 DEF TokenInv, TypeOK, ValuesOK
<1>9. StaleInv'
  BY <1>0 DEF StaleInv
<1>10. SecuredAgreement'
  BY <1>0 DEF SecuredAgreement, ControlInv
<1> QED
  BY <1>5, <1>6, <1>7, <1>8, <1>9, <1>10

(* The challenge that lets a context send its second token is one of the   *)
(* context the server talks to.                                            *)
LEMMA RecvChallengePreserves ==
    ASSUME IInv, RecvChallenge
    PROVE  IInv'
<1> USE BoundsAssumption, RoundsAssumption DEF IInv
<1> DEFINE n == sent[conn] + 1
           reply == Msg(IF n = Rounds THEN "COMPLETE" ELSE "OK", conn, n)
<1>0. /\ pc = "recv" /\ toClient # <<>> /\ toClient' = Tail(toClient)
      /\ Incoming.n > 0 /\ Answers(Incoming)
      /\ sent' = [sent EXCEPT ![conn] = n]
      /\ pc' = AfterStart(n = Rounds)
      /\ UNCHANGED <<outcome, opens, faults, conn, live, clientStarted,
                     isOpen, peerUp, spc, sctx, sprog, probe>>
  BY Zenon DEF RecvChallenge, Receives, server
<1>1. authComplete' = (n = Rounds) /\ toServer' = Written(<<reply>>)
  BY Zenon DEF RecvChallenge
<1>2. /\ conn = opens /\ conn \in Ctx /\ conn \in live
      /\ sent[conn] \in 1 .. Rounds - 1
  BY <1>0 DEF ContextInv, TypeOK, ValuesOK, Ctx
<1>3. /\ Incoming \in Elems(toClient)
      /\ toClient' \in Seq(Messages)
      /\ Elems(toClient') \subseteq Elems(toClient)
  BY <1>0, Receiving DEF TypeOK
<1>4. sctx = conn /\ sprog > 0
  BY <1>0, <1>3 DEF TokenInv, Answers
<1>5. n \in 1 .. Rounds
  BY <1>2
<1>6. reply \in Messages /\ reply.ctx = conn
  BY <1>2, <1>5 DEF Messages, Msg, Statuses
<1>7. /\ toServer' \in Seq(Messages)
      /\ Elems(toServer') \subseteq Elems(toServer) \cup {reply}
  <2> HIDE DEF reply
  <2> QED
    BY <1>1, <1>6, Sends DEF TypeOK
<1>8. /\ sent' \in [Ctx -> 0 .. Rounds] /\ sent'[conn] = n
      /\ \A c \in Ctx \ {conn} : sent'[c] = sent[c]
  BY <1>0, <1>2, <1>5 DEF TypeOK, ValuesOK
<1>9. \/ n = Rounds /\ pc' = "final" /\ authComplete' = TRUE
      \/ n # Rounds /\ pc' = "recv" /\ authComplete' = FALSE
  <2>1. CASE n = Rounds
    BY <1>0, <1>1, <2>1, Zenon DEF AfterStart
  <2>2. CASE n # Rounds
    BY <1>0, <1>1, <2>2, Zenon DEF AfterStart
  <2> QED
    BY <2>1, <2>2
<1> HIDE DEF n, reply
<1>10. TypeOK'
  <2>1. FlagsOK'
    BY <1>0, <1>9, Zenon DEF TypeOK, FlagsOK
  <2>2. ValuesOK'
    BY <1>0, <1>8, <1>9 DEF TypeOK, ValuesOK, Pcs
  <2>3. LinksOK'
    BY <1>3, <1>7, Zenon DEF LinksOK
  <2> QED
    BY <2>1, <2>2, <2>3 DEF TypeOK
<1>11. ControlInv'
  BY <1>0, <1>9 DEF ControlInv, Negotiating
<1>12. ContextInv'
  BY <1>0, <1>2, <1>5, <1>8, <1>9
     DEF ContextInv, Negotiating, Complete, TypeOK, ValuesOK, Ctx
<1>13. TokenInv'
  BY <1>0, <1>2, <1>3, <1>4, <1>6, <1>7 DEF TokenInv, TypeOK, ValuesOK
<1>14. StaleInv'
  BY <1>0, <1>8, <1>9 DEF StaleInv, Complete
<1>15. SecuredAgreement'
  BY <1>0 DEF SecuredAgreement, ControlInv
<1> QED
  BY <1>10, <1>11, <1>12, <1>13, <1>14, <1>15

(* The step that lets open() return.  A context that is complete has sent  *)
(* a second token, so the server talks to it; otherwise the flags were     *)
(* stale, the server has no token and cannot have sent COMPLETE.           *)
LEMMA FinalCompletePreserves ==
    ASSUME IInv, FinalComplete, Rounds >= 2
    PROVE  IInv'
<1> USE BoundsAssumption, RoundsAssumption DEF IInv
<1>0. /\ pc = "final" /\ toClient # <<>> /\ toClient' = Tail(toClient)
      /\ Incoming.status = "COMPLETE"
      /\ pc' = "idle" /\ outcome' = "ok"
      /\ UNCHANGED <<opens, faults, conn, live, sent, clientStarted,
                     authComplete, isOpen, peerUp, toServer,
                     spc, sctx, sprog, probe>>
  BY Zenon DEF FinalComplete, FinalAccepts, Receives, library, server
<1>1. /\ Incoming \in Elems(toClient)
      /\ toClient' \in Seq(Messages)
      /\ Elems(toClient') \subseteq Elems(toClient)
  BY <1>0, Receiving DEF TypeOK
<1>2. spc = "done" /\ sprog = Rounds
  BY <1>0, <1>1 DEF TokenInv
<1>3. Complete(conn)
  BY <1>0, <1>2 DEF StaleInv, NoTokens
<1>4. sctx = conn
  BY <1>0, <1>3 DEF TokenInv, Complete
<1>5. isOpen /\ conn \in live
  BY <1>0 DEF ControlInv, ContextInv, Negotiating
<1>6. TypeOK'
  <2>1. FlagsOK'
    BY <1>0, Zenon DEF TypeOK, FlagsOK
  <2>2. ValuesOK'
    BY <1>0 DEF TypeOK, ValuesOK, Pcs
  <2>3. LinksOK'
    BY <1>0, <1>1, Zenon DEF TypeOK, LinksOK
  <2> QED
    BY <2>1, <2>2, <2>3 DEF TypeOK
<1>7. ControlInv'
  BY <1>0, <1>5 DEF ControlInv, Negotiating
<1>8. ContextInv'
  BY <1>0, <1>3 DEF ContextInv, Negotiating, Complete
<1>9. TokenInv'
  BY <1>0, <1>1 DEF TokenInv
<1>10. StaleInv'
  BY <1>0 DEF StaleInv
<1>11. SecuredAgreement'
  BY <1>0, <1>2, <1>3, <1>4, <1>5 DEF SecuredAgreement, Complete
<1> QED
  BY <1>6, <1>7, <1>8, <1>9, <1>10, <1>11

(* close() and the destructor leave a closed transport.                    *)
LEMMA ClosePreserves ==
    ASSUME IInv, Close
    PROVE  IInv'
<1> USE BoundsAssumption, RoundsAssumption
    DEF IInv, Close, Disconnect, library, server
<1>0. Elems(<<>>) = {}
  BY DEF Elems
<1>1. TypeOK'
  <2>1. FlagsOK'
    BY Zenon DEF TypeOK, FlagsOK
  <2>2. ValuesOK'
    BY DEF TypeOK, ValuesOK, Pcs
  <2>3. LinksOK'
    BY DEF TypeOK, LinksOK
  <2> QED
    BY <2>1, <2>2, <2>3 DEF TypeOK
<1>2. ControlInv'
  BY DEF ControlInv, Negotiating
<1>3. ContextInv'
  BY DEF ContextInv, Negotiating, Complete
<1>4. TokenInv'
  BY <1>0 DEF TokenInv
<1>5. StaleInv'
  BY DEF StaleInv
<1>6. SecuredAgreement'
  BY DEF SecuredAgreement
<1> QED
  BY <1>1, <1>2, <1>3, <1>4, <1>5, <1>6

LEMMA DestroyPreserves ==
    ASSUME IInv, Destroy
    PROVE  IInv'
<1> USE BoundsAssumption, RoundsAssumption
    DEF IInv, Destroy, Disconnect, server
<1>0. Elems(<<>>) = {}
  BY DEF Elems
<1>1. TypeOK'
  <2>1. FlagsOK'
    BY Zenon DEF TypeOK, FlagsOK
  <2>2. ValuesOK'
    BY DEF TypeOK, ValuesOK, Pcs
  <2>3. LinksOK'
    BY DEF TypeOK, LinksOK
  <2> QED
    BY <2>1, <2>2, <2>3 DEF TypeOK
<1>2. ControlInv'
  BY DEF ControlInv, Negotiating
<1>3. ContextInv'
  BY DEF ContextInv, Negotiating, Complete
<1>4. TokenInv'
  BY <1>0 DEF TokenInv
<1>5. StaleInv'
  BY DEF StaleInv
<1>6. SecuredAgreement'
  BY DEF SecuredAgreement
<1> QED
  BY <1>1, <1>2, <1>3, <1>4, <1>5, <1>6

-----------------------------------------------------------------------------
(* The server.  A step of the server changes its own state and the two     *)
(* channels: one lemma for the steps that neither accept a token nor send  *)
(* anything but an empty challenge or BAD, one for each of the others.     *)
Quiet(m) == m \in Messages /\ m.n = 0 /\ m.status # "COMPLETE"

LEMMA QuietServerPreserves ==
    ASSUME IInv,
           UNCHANGED <<pc, outcome, opens, faults, library, isOpen>>,
           UNCHANGED <<sctx, sprog, probe>>,
           \/ spc' = spc
           \/ spc = "start" /\ spc' \in {"step", "failed"}
           \/ spc = "step" /\ spc' = "failed",
           peerUp' \in BOOLEAN,
           LinksOK', Elems(toServer') \subseteq Elems(toServer),
           \A m \in Elems(toClient') : m \in Elems(toClient) \/ Quiet(m)
    PROVE  IInv'
<1> USE BoundsAssumption, RoundsAssumption DEF IInv, library
<1>0. outcome = "ok" => spc' = spc
  BY DEF SecuredAgreement
<1>1. TypeOK'
  <2>1. FlagsOK'
    BY Zenon DEF TypeOK, FlagsOK
  <2>2. ValuesOK'
    BY DEF TypeOK, ValuesOK
  <2> QED
    BY <2>1, <2>2 DEF TypeOK
<1>2. ControlInv'
  BY DEF ControlInv, Negotiating
<1>3. ContextInv'
  BY DEF ContextInv, Negotiating, Complete
<1>4. TokenInv'
  BY DEF TokenInv, Quiet
<1>5. StaleInv'
  BY DEF StaleInv, NoTokens, Complete
<1>6. SecuredAgreement'
  BY <1>0 DEF SecuredAgreement, Complete
<1> QED
  BY <1>1, <1>2, <1>3, <1>4, <1>5, <1>6

(* A message that was served was in flight, and what is left was too.      *)
LEMMA Serving ==
    ASSUME LinksOK, toServer # <<>>
    PROVE  /\ Request \in Elems(toServer)
           /\ Tail(toServer) \in Seq(Messages)
           /\ Elems(Tail(toServer)) \subseteq Elems(toServer)
BY ElemsHeadTail DEF LinksOK, Request

(* What a reply leaves in flight.                                          *)
LEMMA Replies ==
    ASSUME LinksOK, NEW m \in Messages
    PROVE  /\ Append(toClient, m) \in Seq(Messages)
           /\ Elems(Append(toClient, m)) = Elems(toClient) \cup {m}
BY ElemsAppend DEF LinksOK

LEMMA ServerStartPreserves ==
    ASSUME IInv, ServerStart
    PROVE  IInv'
<1>1. /\ LinksOK' /\ Elems(toServer') \subseteq Elems(toServer)
      /\ toClient' = toClient
  BY Serving DEF IInv, TypeOK, LinksOK, ServerStart, Serves
<1>2. /\ UNCHANGED <<pc, outcome, opens, faults, library, isOpen, peerUp>>
      /\ UNCHANGED <<sctx, sprog, probe>>
      /\ spc = "start" /\ spc' = "step"
  BY Zenon DEF ServerStart, Serves
<1>3. peerUp' \in BOOLEAN
  BY <1>2, Zenon DEF IInv, TypeOK, FlagsOK
<1> QED
  BY <1>1, <1>2, <1>3, QuietServerPreserves

LEMMA ServerAsksAgainPreserves ==
    ASSUME IInv, ServerAsksAgain
    PROVE  IInv'
<1> DEFINE empty == Msg("OK", Request.ctx, 0)
<1>1. /\ UNCHANGED <<pc, outcome, opens, faults, library, isOpen, peerUp>>
      /\ UNCHANGED <<spc, sctx, sprog, probe>>
      /\ toServer # <<>> /\ toServer' = Tail(toServer)
      /\ toClient' = Append(toClient, empty)
  BY Zenon DEF ServerAsksAgain, Serves, Reply, server
<1>2. /\ Request \in Elems(toServer)
      /\ toServer' \in Seq(Messages) /\ Elems(toServer') \subseteq Elems(toServer)
  BY <1>1, Serving DEF IInv, TypeOK
<1>3. Quiet(empty)
  BY <1>2, InFlight, RoundsAssumption DEF IInv, Quiet, Msg, Messages, Statuses
<1> HIDE DEF empty
<1>4. toClient' \in Seq(Messages) /\ Elems(toClient') = Elems(toClient) \cup {empty}
  BY <1>1, <1>3, Replies DEF IInv, TypeOK, Quiet
<1>5. LinksOK'
  BY <1>2, <1>4, Zenon DEF LinksOK
<1>6. peerUp' \in BOOLEAN
  BY <1>1, Zenon DEF IInv, TypeOK, FlagsOK
<1> QED
  BY <1>1, <1>2, <1>3, <1>4, <1>5, <1>6, QuietServerPreserves

LEMMA ServerRejectsPreserves ==
    ASSUME IInv, ServerRejects
    PROVE  IInv'
<1> DEFINE bad == Msg("BAD", Request.ctx, 0)
<1>1. /\ UNCHANGED <<pc, outcome, opens, faults, library, isOpen>>
      /\ UNCHANGED <<sctx, sprog, probe>>
      /\ spc \in {"start", "step"} /\ spc' = "failed"
      /\ toServer # <<>> /\ toServer' = <<>> /\ peerUp' = FALSE
      /\ toClient' \in {toClient, Append(toClient, bad)}
  BY Zenon DEF ServerRejects
<1>2. Request \in Elems(toServer)
  BY <1>1, Serving DEF IInv, TypeOK
<1>3. Quiet(bad)
  BY <1>2, InFlight, RoundsAssumption DEF IInv, Quiet, Msg, Messages, Statuses
<1> HIDE DEF bad
<1>4. toClient' \in Seq(Messages) /\ Elems(toClient') \subseteq Elems(toClient) \cup {bad}
  BY <1>1, <1>3, Replies DEF IInv, TypeOK, LinksOK, Quiet
<1>5. LinksOK' /\ Elems(toServer') \subseteq Elems(toServer)
  <2>1. Elems(<<>>) = {}
    BY DEF Elems
  <2> QED
    BY <1>1, <1>4, <2>1 DEF LinksOK
<1>6. peerUp' \in BOOLEAN
  BY <1>1
<1> QED
  BY <1>1, <1>3, <1>4, <1>5, <1>6, QuietServerPreserves

LEMMA ServerMisreadsPreserves ==
    ASSUME IInv, ServerMisreads
    PROVE  IInv'
<1>1. /\ UNCHANGED <<pc, outcome, opens, faults, library, isOpen, toClient>>
      /\ UNCHANGED <<spc, sctx, sprog, probe>>
      /\ toServer' = <<>> /\ peerUp' \in BOOLEAN
  BY Zenon DEF ServerMisreads, server
<1>2. LinksOK' /\ Elems(toServer') = {}
  BY <1>1 DEF IInv, TypeOK, LinksOK, Elems
<1> QED
  BY <1>1, <1>2, QuietServerPreserves

LEMMA ServerDiesPreserves ==
    ASSUME IInv, ServerDies
    PROVE  IInv'
<1>1. /\ UNCHANGED <<pc, outcome, opens, faults, library, isOpen>>
      /\ UNCHANGED <<spc, sctx, sprog, probe>>
      /\ toServer' = <<>> /\ peerUp' = FALSE
      /\ \E k \in 0 .. Len(toClient) : toClient' = SubSeq(toClient, 1, k)
  BY Zenon DEF ServerDies, server
<1>2. toClient' \in Seq(Messages) /\ Elems(toClient') \subseteq Elems(toClient)
  BY <1>1, ElemsPrefix DEF IInv, TypeOK, LinksOK
<1>3. LinksOK' /\ Elems(toServer') = {}
  BY <1>1, <1>2 DEF LinksOK, Elems
<1>4. peerUp' \in BOOLEAN
  BY <1>1
<1> QED
  BY <1>1, <1>2, <1>3, <1>4, QuietServerPreserves

(* The challenge after an empty one: it is of the context whose token the  *)
(* server has accepted.                                                    *)
LEMMA ServerAfterProbePreserves ==
    ASSUME IInv, ServerAfterProbe
    PROVE  IInv'
<1> USE BoundsAssumption, RoundsAssumption DEF IInv
<1> DEFINE challenge == Msg("OK", sctx, sprog)
<1>1. /\ UNCHANGED <<pc, outcome, opens, faults, conn, live, sent,
                     clientStarted, authComplete, isOpen, peerUp,
                     spc, sctx, sprog>>
      /\ spc = "step" /\ probe /\ probe' = FALSE
      /\ toServer # <<>> /\ toServer' = Tail(toServer)
      /\ toClient' = Append(toClient, challenge)
  BY Zenon DEF ServerAfterProbe, Serves, Reply, library
<1>2. toServer' \in Seq(Messages) /\ Elems(toServer') \subseteq Elems(toServer)
  BY <1>1, Serving DEF TypeOK
<1>3. sprog > 0 /\ sctx \in Ctx
  BY <1>1 DEF TokenInv, TypeOK, ValuesOK, Ctx
<1>4. /\ challenge \in Messages /\ challenge.ctx = sctx
      /\ challenge.status = "OK"
  BY <1>3 DEF Msg, Messages, Statuses, TypeOK, ValuesOK
<1> HIDE DEF challenge
<1>5. /\ toClient' \in Seq(Messages)
      /\ Elems(toClient') = Elems(toClient) \cup {challenge}
  BY <1>1, <1>4, Replies DEF TypeOK
<1>6. TypeOK'
  <2>1. FlagsOK'
    BY <1>1, Zenon DEF TypeOK, FlagsOK
  <2>2. ValuesOK'
    BY <1>1 DEF TypeOK, ValuesOK
  <2>3. LinksOK'
    BY <1>2, <1>5, Zenon DEF LinksOK
  <2> QED
    BY <2>1, <2>2, <2>3 DEF TypeOK
<1>7. ControlInv'
  BY <1>1 DEF ControlInv, Negotiating
<1>8. ContextInv'
  BY <1>1 DEF ContextInv, Negotiating, Complete
<1>9. TokenInv'
  BY <1>1, <1>2, <1>3, <1>4, <1>5 DEF TokenInv
<1>10. StaleInv'
  BY <1>1, <1>2 DEF StaleInv, NoTokens, Complete
<1>11. SecuredAgreement'
  BY <1>1 DEF SecuredAgreement, Complete
<1> QED
  BY <1>6, <1>7, <1>8, <1>9, <1>10, <1>11

(* A token fixes the context the server talks to, for as long as the       *)
(* connection lasts.                                                       *)
LEMMA ServerAcceptsPreserves ==
    ASSUME IInv, ServerAccepts
    PROVE  IInv'
<1> USE BoundsAssumption, RoundsAssumption DEF IInv
<1>1. /\ UNCHANGED <<pc, outcome, opens, faults, conn, live, sent,
                     clientStarted, authComplete, isOpen, peerUp>>
      /\ spc = "step"
      /\ toServer # <<>> /\ toServer' = Tail(toServer)
      /\ Request.n = sprog + 1 /\ (sprog = 0 \/ Request.ctx = sctx)
      /\ sctx' = Request.ctx /\ sprog' = Request.n
  BY Zenon DEF ServerAccepts, Serves, Expected, library
<1>2. /\ Request \in Elems(toServer)
      /\ toServer' \in Seq(Messages) /\ Elems(toServer') \subseteq Elems(toServer)
  BY <1>1, Serving DEF TypeOK
<1>3. /\ Request.ctx \in Ctx /\ Request.ctx \in 1 .. opens
      /\ Request.n \in 1 .. Rounds
  <2>1. Request.ctx \in Ctx /\ Request.n \in 0 .. Rounds /\ Request.ctx <= opens
    BY <1>2, InFlight DEF TokenInv
  <2> QED
    BY <1>1, <2>1 DEF TypeOK, ValuesOK, Ctx
<1>4. PICK m \in Messages :
          /\ toClient' = Append(toClient, m)
          /\ m.ctx = sctx'
          /\ m.status = "COMPLETE" => spc' = "done"
          /\ spc' \in {"step", "done"}
          /\ spc' = "done" => sprog' = Rounds
          /\ probe' \in BOOLEAN
  <2> DEFINE done == Msg("COMPLETE", Request.ctx, 0)
             challenge == Msg("OK", Request.ctx, Request.n)
             empty == Msg("OK", Request.ctx, 0)
  <2>1. /\ done \in Messages /\ done.ctx = Request.ctx
        /\ challenge \in Messages /\ challenge.ctx = Request.ctx
        /\ challenge.status = "OK"
        /\ empty \in Messages /\ empty.ctx = Request.ctx
        /\ empty.status = "OK"
    BY <1>3 DEF Msg, Messages, Statuses
  <2> HIDE DEF done, challenge, empty
  <2>2. \/ /\ Request.n = Rounds /\ spc' = "done" /\ probe' = FALSE
           /\ toClient' = Append(toClient, done)
        \/ /\ spc' = "step" /\ probe' = FALSE
           /\ toClient' = Append(toClient, challenge)
        \/ /\ spc' = "step" /\ probe' = TRUE
           /\ toClient' = Append(toClient, empty)
    BY Zenon DEF ServerAccepts, Reply, done, challenge, empty
  <2>3. CASE Request.n = Rounds /\ spc' = "done" /\ toClient' = Append(toClient, done)
    BY <1>1, <2>1, <2>2, <2>3
  <2>4. CASE spc' = "step" /\ toClient' = Append(toClient, challenge)
    BY <1>1, <2>1, <2>2, <2>4
  <2>5. CASE spc' = "step" /\ toClient' = Append(toClient, empty)
    BY <1>1, <2>1, <2>2, <2>5
  <2> QED
    BY <2>2, <2>3, <2>4, <2>5
<1>5. /\ toClient' \in Seq(Messages)
      /\ Elems(toClient') = Elems(toClient) \cup {m}
  BY <1>4, Replies DEF TypeOK
<1>6. TypeOK'
  <2>1. FlagsOK'
    BY <1>1, <1>4, Zenon DEF TypeOK, FlagsOK
  <2>2. ValuesOK'
    BY <1>1, <1>3, <1>4 DEF TypeOK, ValuesOK, Ctx
  <2>3. LinksOK'
    BY <1>2, <1>5, Zenon DEF LinksOK
  <2> QED
    BY <2>1, <2>2, <2>3 DEF TypeOK
<1>7. ControlInv'
  BY <1>1 DEF ControlInv, Negotiating
<1>8. ContextInv'
  BY <1>1 DEF ContextInv, Negotiating, Complete
<1>9. TokenInv'
  <2>1. \A k \in Elems(toServer') : k.ctx <= opens'
    BY <1>1, <1>2 DEF TokenInv
  <2>2. sprog' > 0 /\ sctx' \in 1 .. opens'
    BY <1>1, <1>3
  <2>3. sprog > 0 => sctx' = sctx
    BY <1>1
  <2>4. \A k \in Elems(toClient') :
            /\ k.n > 0 => k.ctx = sctx' /\ sprog' > 0
            /\ k.status = "COMPLETE" => spc' = "done"
    BY <1>1, <1>4, <1>5, <2>2, <2>3 DEF TokenInv
  <2>5. /\ spc' = "done" => sprog' = Rounds
        /\ spc' # "start"
    BY <1>4
  <2>6. pc' \in {"recv", "final"} /\ sent'[conn'] >= 2 => sctx' = conn' /\ sprog' > 0
    BY <1>1, <2>2, <2>3 DEF TokenInv
  <2> QED
    BY <2>1, <2>2, <2>4, <2>5, <2>6 DEF TokenInv
<1>10. StaleInv'
  <2>1. ~NoTokens
    BY <1>2, <1>3 DEF NoTokens
  <2> QED
    BY <1>1, <2>1 DEF StaleInv, Complete
<1>11. SecuredAgreement'
  BY <1>1 DEF SecuredAgreement
<1> QED
  BY <1>6, <1>7, <1>8, <1>9, <1>10, <1>11

-----------------------------------------------------------------------------
(* The steps that throw.                                                   *)
LEMMA ThrowingStepsPreserve ==
    ASSUME IInv,
           \/ StartFails \/ RecvUnexpected \/ RecvFails
           \/ FinalUnexpected \/ EndOfStream \/ ReadTimesOut
    PROVE  IInv'
<1> DEFINE Same == UNCHANGED <<peerUp, toServer, server>>
           Less == /\ toClient' \in Seq(Messages)
                   /\ Elems(toClient') \subseteq Elems(toClient)
<1>1. LinksOK /\ isOpen \in BOOLEAN /\ faults \in 0 .. MaxFaults
  BY DEF IInv, TypeOK, FlagsOK, ValuesOK
<1>2. toClient' = toClient => Less
  BY <1>1 DEF LinksOK
<1>3. toClient # <<>> /\ toClient' = Tail(toClient) => Less
  BY <1>1, Receiving
<1> HIDE DEF Less
<1>4. CASE StartFails
  <2>1. /\ Throw /\ Negotiating /\ Same /\ toClient' = toClient
        /\ faults' = faults /\ isOpen' \in BOOLEAN
    BY <1>1, <1>4, Zenon DEF StartFails, Negotiating
  <2> QED
    BY <1>1, <1>2, <2>1, ThrowPreserves DEF Less
<1>5. CASE RecvUnexpected \/ FinalUnexpected
  <2>1. /\ Throw /\ Negotiating /\ Same
        /\ toClient # <<>> /\ toClient' = Tail(toClient)
        /\ faults' = faults /\ isOpen' \in BOOLEAN
    BY <1>1, <1>5, Zenon DEF RecvUnexpected, FinalUnexpected, Receives, Negotiating
  <2> QED
    BY <1>1, <1>3, <2>1, ThrowPreserves DEF Less
<1>6. CASE RecvFails
  <2>1. /\ Throw /\ Negotiating /\ Same
        /\ toClient # <<>> /\ toClient' = Tail(toClient)
        /\ faults' = faults /\ isOpen' \in BOOLEAN
    BY <1>1, <1>6, Zenon DEF RecvFails, Receives, Negotiating
  <2> QED
    BY <1>1, <1>3, <2>1, ThrowPreserves DEF Less
<1>7. CASE EndOfStream
  <2>1. /\ Throw /\ Negotiating /\ Same /\ toClient' = toClient
        /\ faults' = faults /\ isOpen' \in BOOLEAN
    BY <1>1, <1>7, Zenon DEF EndOfStream, Negotiating, link
  <2> QED
    BY <1>1, <1>2, <2>1, ThrowPreserves DEF Less
<1>8. CASE ReadTimesOut
  <2>1. /\ Throw /\ Negotiating /\ Same /\ toClient' = toClient
        /\ faults' = faults + 1 /\ faults < MaxFaults /\ isOpen' \in BOOLEAN
    BY <1>1, <1>8, Zenon DEF ReadTimesOut, Negotiating, link
  <2>2. faults' \in 0 .. MaxFaults
    BY <1>1, <2>1, BoundsAssumption
  <2> QED
    BY <1>2, <2>1, <2>2, ThrowPreserves DEF Less
<1> QED
  BY <1>4, <1>5, <1>6, <1>7, <1>8

LEMMA StutteringPreserves ==
    ASSUME IInv, UNCHANGED vars
    PROVE  IInv'
<1> USE DEF IInv, vars, library, link, server
<1>1. TypeOK'
  <2>1. FlagsOK'
    BY Zenon DEF TypeOK, FlagsOK
  <2>2. ValuesOK'
    BY DEF TypeOK, ValuesOK
  <2>3. LinksOK'
    BY Zenon DEF TypeOK, LinksOK
  <2> QED
    BY <2>1, <2>2, <2>3 DEF TypeOK
<1>2. ControlInv'
  BY DEF ControlInv, Negotiating
<1>3. ContextInv'
  BY DEF ContextInv, Negotiating, Complete
<1>4. TokenInv'
  BY DEF TokenInv
<1>5. StaleInv'
  BY DEF StaleInv, NoTokens, Complete
<1>6. SecuredAgreement'
  BY DEF SecuredAgreement, Complete
<1> QED
  BY <1>1, <1>2, <1>3, <1>4, <1>5, <1>6

(* Every step preserves the invariant.                                     *)
LEMMA NextPreserves ==
    ASSUME IInv, [Next]_vars, Rounds >= 2
    PROVE  IInv'
<1>1. CASE OpenOnOpenLink
  BY <1>1, OpenOnOpenLinkPreserves
<1>2. CASE OpenConnects
  BY <1>2, OpenConnectsPreserves
<1>3. CASE OpenRefused
  BY <1>3, OpenRefusedPreserves
<1>4. CASE SetupSucceeds \/ SetupFails
  BY <1>4, SetupSucceedsPreserves, SetupFailsPreserves
<1>5. CASE StartFirst \/ StartAgain
  BY <1>5, StartFirstPreserves, StartAgainPreserves
<1>6. CASE \/ StartFails \/ RecvUnexpected \/ RecvFails
           \/ FinalUnexpected \/ EndOfStream \/ ReadTimesOut
  BY <1>6, ThrowingStepsPreserve
<1>7. CASE RecvEmptyChallenge \/ RecvChallenge
  BY <1>7, RecvEmptyChallengePreserves, RecvChallengePreserves
<1>8. CASE FinalComplete
  BY <1>8, FinalCompletePreserves
<1>9. CASE Close \/ Destroy
  BY <1>9, ClosePreserves, DestroyPreserves
<1>10. CASE ServerStart \/ ServerAsksAgain \/ ServerRejects \/ ServerMisreads
  BY <1>10, ServerStartPreserves, ServerAsksAgainPreserves,
     ServerRejectsPreserves, ServerMisreadsPreserves
<1>11. CASE ServerAccepts \/ ServerAfterProbe
  BY <1>11, ServerAcceptsPreserves, ServerAfterProbePreserves
<1>12. CASE ServerDies
  BY <1>12, ServerDiesPreserves
<1>13. CASE UNCHANGED vars
  BY <1>13, StutteringPreserves
<1> QED
  BY <1>1, <1>2, <1>3, <1>4, <1>5, <1>6, <1>7, <1>8, <1>9, <1>10, <1>11,
     <1>12, <1>13, Zenon DEF Next, ClientStep, ServerStep, Finished

-----------------------------------------------------------------------------
(* The invariant holds of every behaviour, whatever the number of calls of *)
(* open() and of timeouts, for a mechanism of two rounds or more.          *)
THEOREM Invariance ==
    ASSUME Rounds >= 2
    PROVE  Spec => []IInv
<1>1. Init => IInv
  BY InitEstablishes
<1>2. IInv /\ [Next]_vars => IInv'
  BY NextPreserves
<1> QED
  BY <1>1, <1>2, PTL DEF Spec

(* The types of SaslNegotiation.                                           *)
THEOREM TypeCorrect ==
    ASSUME Rounds >= 2
    PROVE  Spec => []TypeOK
<1>1. IInv => TypeOK
  BY DEF IInv
<1> QED
  BY <1>1, Invariance, PTL

(* When open() has returned normally the server has authenticated the very *)
(* context the client holds, whatever was lost, late, refused or left over *)
(* before.                                                                 *)
THEOREM Agreement ==
    ASSUME Rounds >= 2
    PROVE  Spec => []SecuredAgreement
<1>1. IInv => SecuredAgreement
  BY DEF IInv
<1> QED
  BY <1>1, Invariance, PTL

(* A negotiation that fails frees the context it allocated.                *)
THEOREM NoLeakOnFailure ==
    ASSUME Rounds >= 2
    PROVE  Spec => []FailureFreesContext
<1>1. IInv => FailureFreesContext
  BY DEF IInv, ContextInv, FailureFreesContext
<1> QED
  BY <1>1, Invariance, PTL

(* The receive loop runs only after a first token has gone out.            *)
THEOREM LoopFollowsToken ==
    ASSUME Rounds >= 2
    PROVE  Spec => []LoopHasToken
<1>1. IInv => LoopHasToken
  BY DEF IInv, ContextInv, LoopHasToken
<1> QED
  BY <1>1, Invariance, PTL

-----------------------------------------------------------------------------
(* The refinement.  What the handshake sees of a state.                    *)
Accepted == IF spc = "done" THEN sctx ELSE 0

(* The initial states map to the initial state of the handshake.           *)
LEMMA InitRefines == Init => Handshake!AInit
BY DEF Init, Handshake!AInit, PhaseOf

(* A step that ends the call by an exception.                              *)
LEMMA FailRefines ==
    ASSUME outcome = "pending", outcome' \in {"failed"}, opens' = opens,
           UNCHANGED <<spc, sctx>>
    PROVE  Handshake!Fail
BY DEF Handshake!Fail, PhaseOf

(* A step the caller of open() does not see.                               *)
LEMMA HiddenRefines ==
    ASSUME opens' = opens, PhaseOf(outcome)' = PhaseOf(outcome), Accepted' = Accepted
    PROVE  UNCHANGED Handshake!avars
BY DEF Handshake!avars, Accepted

(* Every step maps to a step of the handshake, or to none.                 *)
LEMMA NextRefines ==
    ASSUME IInv, IInv', [Next]_vars, Rounds >= 2
    PROVE  [Handshake!ANext]_(Handshake!avars)
<1> USE BoundsAssumption, RoundsAssumption
<1>1. CASE OpenOnOpenLink \/ OpenConnects \/ OpenRefused
  <2>1. /\ opens < MaxOpens /\ opens' = opens + 1
        /\ outcome' \in {"pending", "refused"}
        /\ PhaseOf(outcome) = "closed"
    <3>1. outcome # "pending" /\ ~(outcome = "ok" /\ ~isOpen)
      BY <1>1 DEF OpenOnOpenLink, OpenConnects, OpenRefused, MayOpen, IInv,
         ControlInv, Negotiating
    <3> QED
      BY <1>1, <3>1 DEF OpenOnOpenLink, OpenConnects, OpenRefused, MayOpen, PhaseOf
  <2>2. Accepted' \in {Accepted, 0}
    BY <1>1 DEF OpenOnOpenLink, OpenConnects, OpenRefused, server, Accepted
  <2>3. Handshake!Begin
    BY <2>1, <2>2 DEF Handshake!Begin, Accepted, PhaseOf
  <2> QED
    BY <2>3 DEF Handshake!ANext
<1>2. CASE \/ SetupFails \/ StartFails \/ RecvUnexpected \/ RecvFails
           \/ FinalUnexpected \/ EndOfStream \/ ReadTimesOut
  <2>1. Negotiating /\ outcome' \in {"failed"} /\ opens' = opens /\ UNCHANGED <<spc, sctx>>
    BY <1>2, Zenon DEF SetupFails, StartFails, RecvUnexpected, RecvFails,
       FinalUnexpected, EndOfStream, ReadTimesOut, Receives, Throw, server,
       Negotiating
  <2>2. outcome = "pending"
    BY <2>1 DEF IInv, ControlInv
  <2>3. Handshake!Fail
    BY <2>1, <2>2, FailRefines
  <2> QED
    BY <2>3 DEF Handshake!ANext
<1>3. CASE \/ SetupSucceeds \/ StartFirst \/ StartAgain
           \/ RecvEmptyChallenge \/ RecvChallenge
  <2>1. UNCHANGED <<opens, outcome, spc, sctx>>
    BY <1>3, Zenon DEF SetupSucceeds, StartFirst, StartAgain,
       RecvEmptyChallenge, RecvChallenge, server
  <2> QED
    BY <2>1, HiddenRefines DEF PhaseOf, Accepted
<1>4. CASE FinalComplete
  <2>1. /\ pc = "final" /\ outcome' = "ok"
        /\ UNCHANGED <<opens, conn, spc, sctx>>
    BY <1>4, Zenon DEF FinalComplete, Receives, library, server
  <2>2. outcome = "pending" /\ conn = opens
    BY <2>1 DEF IInv, ControlInv, Negotiating, ContextInv
  <2>3. spc = "done" /\ sctx = conn
    BY <2>1 DEF IInv, SecuredAgreement
  <2>4. Handshake!Establish
    BY <2>1, <2>2, <2>3 DEF Handshake!Establish, PhaseOf
  <2> QED
    BY <2>4 DEF Handshake!ANext
<1>5. CASE Close \/ Destroy
  <2>1. /\ pc = "idle" /\ outcome' = "closed"
        /\ UNCHANGED <<opens, spc, sctx>>
    BY <1>5, Zenon DEF Close, Destroy, server
  <2>2. outcome # "pending"
    BY <2>1 DEF IInv, ControlInv, Negotiating
  <2>3. CASE outcome = "ok"
    <3>1. Handshake!Leave
      BY <2>1, <2>3 DEF Handshake!Leave, PhaseOf
    <3> QED
      BY <3>1 DEF Handshake!ANext
  <2>4. CASE outcome # "ok"
    BY <2>1, <2>2, <2>4, HiddenRefines DEF PhaseOf, Accepted
  <2> QED
    BY <2>3, <2>4
<1>6. CASE ServerAccepts
  <2>1. /\ spc = "step" /\ toServer # <<>>
        /\ UNCHANGED <<opens, outcome>>
        /\ sctx' = Request.ctx /\ spc' \in {"step", "done"}
    BY <1>6 DEF ServerAccepts, Serves
  <2>2. sctx' \in 1 .. opens
    <3>1. Request \in Elems(toServer)
      BY <2>1, Serving DEF IInv, TypeOK
    <3> QED
      BY <2>1, <3>1, InFlight DEF IInv, TokenInv, TypeOK, ValuesOK, Ctx
  <2>3. outcome # "ok"
    BY <2>1 DEF IInv, SecuredAgreement
  <2>4. CASE spc' = "done"
    <3>1. Handshake!Accept
      BY <2>1, <2>2, <2>3, <2>4 DEF Handshake!Accept, PhaseOf
    <3> QED
      BY <3>1 DEF Handshake!ANext
  <2>5. CASE spc' = "step"
    BY <2>1, <2>5, HiddenRefines DEF PhaseOf, Accepted
  <2> QED
    BY <2>1, <2>4, <2>5
<1>7. CASE \/ ServerStart \/ ServerAsksAgain \/ ServerAfterProbe
           \/ ServerRejects \/ ServerMisreads \/ ServerDies
  <2>1. UNCHANGED <<opens, outcome, sctx>> /\ (spc' = "done" <=> spc = "done")
    BY <1>7 DEF ServerStart, ServerAsksAgain, ServerAfterProbe, ServerRejects,
       ServerMisreads, ServerDies, Serves, server
  <2> QED
    BY <2>1, HiddenRefines DEF PhaseOf, Accepted
<1>8. CASE UNCHANGED vars
  BY <1>8, HiddenRefines DEF vars, server, PhaseOf, Accepted
<1> QED
  BY <1>1, <1>2, <1>3, <1>4, <1>5, <1>6, <1>7, <1>8, Zenon
     DEF Next, ClientStep, ServerStep, Finished

(* The negotiation implements the handshake: open() returns normally only  *)
(* while the server is done with the context of that very call.            *)
THEOREM Refinement ==
    ASSUME Rounds >= 2
    PROVE  Spec => HandshakeSafe
<1>1. Init => Handshake!AInit
  BY InitRefines
<1>2. IInv /\ IInv' /\ [Next]_vars => [Handshake!ANext]_(Handshake!avars)
  BY NextRefines
<1> QED
  BY <1>1, <1>2, Invariance, PTL DEF Spec, HandshakeSafe, Handshake!ASafe

-----------------------------------------------------------------------------
(* Nothing left over: the invariant LinkInv, from IInv.  First what the    *)
(* operations of the channels do.                                          *)
LEMMA HeadAndTail ==
    ASSUME NEW s \in Seq(Messages), s # <<>>
    PROVE  /\ Head(s) = s[1] /\ Len(s) > 0 /\ Len(Tail(s)) = Len(s) - 1
           /\ Tail(s) \in Seq(Messages)
           /\ \A i \in 1 .. Len(s) - 1 : Tail(s)[i] = s[i + 1]
           /\ Len(s) > 1 => Tail(s) # <<>> /\ Head(Tail(s)) = s[2]
           /\ Len(s) = 1 => Tail(s) = <<>>
<1>1. /\ Len(s) \in Nat /\ Len(s) > 0 /\ Len(Tail(s)) = Len(s) - 1 /\ Tail(s) \in Seq(Messages)
      /\ \A i \in 1 .. Len(s) - 1 : Tail(s)[i] = s[i + 1]
  BY HeadTailProperties, EmptySeq
<1>2. Head(s) = s[1]
  OBVIOUS
<1>3. PICK t \in Seq(Messages) : t = Tail(s)
  BY <1>1
<1>4. t # <<>> => Head(t) = t[1]
  OBVIOUS
<1>5. Len(t) = 0 <=> t = <<>>
  BY EmptySeq
<1> QED
  BY <1>1, <1>2, <1>3, <1>4, <1>5

(* What the client writes comes after what is on its way, or is lost.      *)
LEMMA WrittenAfter ==
    ASSUME LinksOK, NEW ms \in Seq(Messages), Len(ms) > 0, toServer' = Written(ms)
    PROVE  /\ Len(toServer') = Len(toServer) \/ Len(toServer') = Len(toServer) + Len(ms)
           /\ \A i \in 1 .. Len(toServer) : toServer'[i] = toServer[i]
           /\ Len(toServer') = Len(toServer) + Len(ms) =>
                \A i \in 1 .. Len(ms) : toServer'[Len(toServer) + i] = ms[i]
           /\ toServer' \in Seq(Messages)
<1>1. PICK s \in Seq(Messages) : s = toServer
  BY DEF LinksOK
<1>2. PICK t : t = s \o ms
  OBVIOUS
<1>3. /\ t \in Seq(Messages) /\ Len(t) = Len(s) + Len(ms)
      /\ \A i \in 1 .. Len(s) + Len(ms) : t[i] = IF i <= Len(s) THEN s[i] ELSE ms[i - Len(s)]
  BY <1>2, ConcatProperties
<1>4. ASSUME NEW i \in 1 .. Len(ms) PROVE t[Len(s) + i] = ms[i]
  <2>1. Len(s) + i \in 1 .. Len(s) + Len(ms) /\ (Len(s) + i) - Len(s) = i
    OBVIOUS
  <2> QED
    BY <1>3, <2>1
<1>5. toServer' = t \/ toServer' = s
  BY <1>1, <1>2 DEF Written
<1> QED
  BY <1>1, <1>3, <1>4, <1>5

(* A connection that is new, or closed.                                    *)
LEMMA ClearsLeaveNothing ==
    ASSUME IInv, LinkInv, OpenConnects \/ Close \/ Destroy
    PROVE  LinkInv'
<1>1. toServer' = <<>> /\ toClient' = <<>> /\ pc' # "start"
  BY DEF OpenConnects, Close, Destroy, Disconnect
<1>2. pc' = "setup" => sprog' = 0
  BY DEF OpenConnects, Close, Destroy
<1>3. Elems(<<>>) = {} /\ Len(<<>>) = 0
  BY DEF Elems
<1>4. pc' \notin {"recv", "final"}
  BY DEF OpenConnects, Close, Destroy
<1> QED
  BY <1>1, <1>2, <1>3, <1>4
     DEF LinkInv, EarlierInv, FirstTokenInv, UnreadInv, TurnsInv, NothingLeftOver, Waiting

(* A step of the client that sends nothing, and does not wait afterwards.  *)
LEMMA SilentLeavesNothing ==
    ASSUME IInv, LinkInv,
           UNCHANGED <<toServer, spc, sctx, sprog>>,
           toClient = <<>> => toClient' = <<>>,
           pc' \notin {"recv", "final"}, outcome' # "ok",
           pc' \in {"setup", "start"} =>
                opens' = opens + 1 \/ (opens' = opens /\ pc \in {"setup", "start"})
    PROVE  LinkInv'
<1>1. EarlierInv'
  <2> SUFFICES ASSUME pc' \in {"setup", "start"}
               PROVE  /\ sprog > 0 => sctx < opens'
                      /\ \A m \in Elems(toServer) : m.ctx < opens'
    BY DEF EarlierInv
  <2>1. opens \in Nat /\ sctx \in Nat /\ \A m \in Elems(toServer) : m.ctx \in Nat
    BY InFlight, BoundsAssumption DEF IInv, TypeOK, ValuesOK, Ctx
  <2>2. CASE opens' = opens + 1
    BY <2>1, <2>2 DEF IInv, TokenInv
  <2>3. CASE opens' = opens /\ pc \in {"setup", "start"}
    BY <2>3 DEF LinkInv, EarlierInv
  <2> QED
    BY <2>2, <2>3
<1> QED
  BY <1>1 DEF LinkInv, FirstTokenInv, UnreadInv, TurnsInv, NothingLeftOver, Waiting

LEMMA ThrowLeavesNothing ==
    ASSUME IInv, LinkInv,
           \/ OpenOnOpenLink \/ OpenRefused \/ SetupSucceeds \/ SetupFails
           \/ StartFails \/ RecvUnexpected \/ RecvFails
           \/ FinalUnexpected \/ EndOfStream \/ ReadTimesOut
    PROVE  LinkInv'
<1>1. UNCHANGED <<toServer, spc, sctx, sprog>>
  BY Zenon DEF OpenOnOpenLink, OpenRefused, SetupSucceeds, SetupFails, StartFails,
     RecvUnexpected, RecvFails, FinalUnexpected, EndOfStream, ReadTimesOut, link, server
<1>2. toClient = <<>> => toClient' = <<>>
  BY Zenon DEF OpenOnOpenLink, OpenRefused, SetupSucceeds, SetupFails, StartFails,
     RecvUnexpected, RecvFails, FinalUnexpected, EndOfStream, ReadTimesOut, link, Receives
<1>3. /\ pc' \notin {"recv", "final"} /\ outcome' # "ok"
      /\ pc' \in {"setup", "start"} =>
            opens' = opens + 1 \/ (opens' = opens /\ pc \in {"setup", "start"})
  <2>1. CASE OpenOnOpenLink \/ OpenRefused
    <3>1. /\ opens' = opens + 1 /\ outcome' \in {"pending", "refused"}
          /\ pc' = "setup" \/ (pc' = pc /\ pc = "idle")
      BY <2>1, Zenon DEF OpenOnOpenLink, OpenRefused, MayOpen
    <3> QED
      BY <3>1
  <2>2. CASE SetupSucceeds \/ SetupFails
    BY <2>2 DEF SetupSucceeds, SetupFails, IInv, ControlInv, Negotiating
  <2>3. CASE \/ StartFails \/ RecvUnexpected \/ RecvFails
             \/ FinalUnexpected \/ EndOfStream \/ ReadTimesOut
    <3>1. Throw
      BY <2>3, Zenon DEF StartFails, RecvUnexpected, RecvFails, FinalUnexpected,
         EndOfStream, ReadTimesOut
    <3> QED
      BY <3>1 DEF Throw
  <2> QED
    BY <2>1, <2>2, <2>3
<1> QED
  BY <1>1, <1>2, <1>3, SilentLeavesNothing

(* START and what comes with it, behind what earlier calls have sent.      *)
LEMMA StartLeavesNothing ==
    ASSUME IInv, LinkInv, StartFirst \/ StartAgain
    PROVE  LinkInv'
<1> USE BoundsAssumption, RoundsAssumption
<1>1. /\ pc = "start" /\ conn = opens /\ conn \in Ctx
  BY DEF StartFirst, StartAgain, IInv, ContextInv, TypeOK, ValuesOK, Ctx
<1>2. /\ UNCHANGED <<outcome, opens, conn, toClient, spc, sctx, sprog>>
  BY Zenon DEF StartFirst, StartAgain, library, server
<1>3. pc' \notin {"setup", "start"}
  BY DEF StartFirst, StartAgain, AfterStart
<1>4. outcome # "ok"
  BY <1>1 DEF IInv, ControlInv, Negotiating
<1>5. PICK k \in Messages, n \in {0, 1} :
        /\ k = Msg("OK", conn, n)
        /\ toServer' = Written(<<Msg("START", conn, 0), k>>)
  <2>1. Msg("OK", conn, 0) \in Messages /\ Msg("OK", conn, 1) \in Messages
    BY <1>1 DEF Msg, Messages, Statuses
  <2>2. \/ toServer' = Written(<<Msg("START", conn, 0), Msg("OK", conn, 1)>>)
        \/ toServer' = Written(<<Msg("START", conn, 0), Msg("OK", conn, 0)>>)
    BY Zenon DEF StartFirst, StartAgain
  <2> QED
    BY <2>1, <2>2
<1>6. PICK h \in Messages : h = Msg("START", conn, 0)
  <2>1. Msg("START", conn, 0) \in Messages
    BY <1>1 DEF Msg, Messages, Statuses
  <2> QED
    BY <2>1
<1>7. h.status = "START" /\ h.ctx = conn /\ h.n = 0 /\ k.ctx = conn
  BY <1>5, <1>6 DEF Msg
<1>8. PICK s \in Seq(Messages) : s = toServer
  BY DEF IInv, TypeOK, LinksOK
<1>9. PICK t \in Seq(Messages) :
        /\ t = toServer'
        /\ Len(t) = Len(s) \/ Len(t) = Len(s) + 2
        /\ \A i \in 1 .. Len(s) : t[i] = s[i]
        /\ Len(t) = Len(s) + 2 => t[Len(s) + 1] = h /\ t[Len(s) + 2] = k
  <2>0. <<h, k>> \in Seq(Messages) /\ Len(<<h, k>>) = 2 /\ <<h, k>>[1] = h /\ <<h, k>>[2] = k
    OBVIOUS
  <2>1. PICK ms \in Seq(Messages) : ms = <<h, k>> /\ Len(ms) = 2 /\ ms[1] = h /\ ms[2] = k
    BY <2>0, Zenon
  <2>2. toServer' = Written(ms) /\ LinksOK /\ Len(ms) > 0
    BY <1>5, <1>6, <2>1 DEF IInv, TypeOK
  <2>3. /\ Len(toServer') = Len(toServer) \/ Len(toServer') = Len(toServer) + Len(ms)
        /\ \A i \in 1 .. Len(toServer) : toServer'[i] = toServer[i]
        /\ Len(toServer') = Len(toServer) + Len(ms) =>
             \A i \in 1 .. Len(ms) : toServer'[Len(toServer) + i] = ms[i]
        /\ toServer' \in Seq(Messages)
    BY <2>2, WrittenAfter
  <2>4. Len(toServer') = Len(toServer) + 2 =>
            toServer'[Len(toServer) + 1] = h /\ toServer'[Len(toServer) + 2] = k
    BY <2>1, <2>3
  <2> QED
    BY <1>8, <2>1, <2>3, <2>4
<1>10. s # <<>> => /\ Len(s) > 0 /\ t # <<>> /\ Head(t) = Head(s)
                   /\ Head(s).ctx \in Nat /\ Head(s).ctx < conn
  <2> SUFFICES ASSUME s # <<>>
               PROVE  /\ Len(s) > 0 /\ t # <<>> /\ Head(t) = Head(s)
                      /\ Head(s).ctx \in Nat /\ Head(s).ctx < conn
    OBVIOUS
  <2>1. Len(s) > 0 /\ Head(s) = s[1] /\ Head(s) \in Elems(s)
    BY HeadAndTail, ElemsHeadTail
  <2>2. Head(s).ctx < conn /\ Head(s).ctx \in Nat
    BY <1>1, <1>8, <2>1, InFlight DEF LinkInv, EarlierInv, IInv, Ctx
  <2>3. Len(t) > 0 /\ t[1] = s[1]
    BY <1>9, <2>1
  <2>4. t # <<>> /\ Head(t) = t[1]
    BY <2>3
  <2> QED
    BY <2>1, <2>2, <2>3, <2>4
<1>11. ASSUME s = <<>>, t # <<>>
       PROVE  Len(t) = 2 /\ Head(t) = h
  <2>1. Len(s) = 0 /\ Len(t) # 0 /\ Head(t) = t[1]
    BY <1>11
  <2> QED
    BY <1>9, <2>1
<1>12. FirstTokenInv'
  <2> SUFFICES ASSUME NEW i \in 2 .. Len(t), t[i].n = 1
               PROVE  t[i - 1].status = "START" /\ t[i - 1].ctx = t[i].ctx
    BY <1>9 DEF FirstTokenInv
  <2>1. CASE i \in 2 .. Len(s)
    <3>0. i \in 1 .. Len(s) /\ i - 1 \in 1 .. Len(s)
      BY <2>1
    <3>1. t[i] = s[i] /\ t[i - 1] = s[i - 1]
      BY <1>9, <3>0
    <3> QED
      BY <1>8, <2>1, <3>1 DEF LinkInv, FirstTokenInv
  <2>2. CASE i = Len(s) + 1
    BY <1>7, <1>9, <2>2
  <2>3. CASE i = Len(s) + 2
    <3>1. i - 1 = Len(s) + 1
      BY <2>3
    <3> QED
      BY <1>7, <1>9, <2>3, <3>1
  <2> QED
    BY <1>9, <2>1, <2>2, <2>3
<1>13. UnreadInv'
  <2>1. CASE s = <<>>
    BY <1>2, <1>7, <1>9, <1>11, <2>1 DEF LinkInv, UnreadInv
  <2>2. CASE s # <<>>
    BY <1>1, <1>2, <1>8, <1>9, <1>10, <2>2 DEF LinkInv, UnreadInv, Ctx
  <2> QED
    BY <2>1, <2>2
<1>14. TurnsInv'
  <2>1. sprog > 0 => sctx # conn
    BY <1>1 DEF LinkInv, EarlierInv, IInv, TypeOK, ValuesOK, Ctx
  <2> QED
    BY <1>2, <2>1 DEF TurnsInv
<1>15. EarlierInv' /\ NothingLeftOver'
  BY <1>2, <1>3, <1>4 DEF EarlierInv, NothingLeftOver
<1> QED
  BY <1>12, <1>13, <1>14, <1>15 DEF LinkInv

(* A reply: one message is taken, and one that is no first token is sent.  *)
LEMMA ReplyLeavesNothing ==
    ASSUME IInv, LinkInv, RecvEmptyChallenge \/ RecvChallenge
    PROVE  LinkInv'
<1> USE BoundsAssumption, RoundsAssumption
<1>1. /\ pc = "recv" /\ toClient # <<>> /\ toClient' = Tail(toClient)
      /\ UNCHANGED <<outcome, opens, conn, spc, sctx, sprog>>
  BY Zenon DEF RecvEmptyChallenge, RecvChallenge, Receives, library, server
<1>2. pc' \notin {"setup", "start"} /\ Waiting /\ outcome # "ok"
  BY <1>1 DEF RecvEmptyChallenge, RecvChallenge, AfterStart, Waiting, IInv, ControlInv, Negotiating
<1>3. conn \in Ctx /\ sent[conn] \in 1 .. Rounds - 1
  BY <1>1 DEF IInv, ContextInv, TypeOK, ValuesOK, Ctx
<1>4. PICK k \in Messages : k.n # 1 /\ toServer' = Written(<<k>>)
  <2>1. CASE RecvEmptyChallenge
    <3>1. Msg("OK", conn, 0) \in Messages /\ Msg("OK", conn, 0).n # 1
      BY <1>3 DEF Msg, Messages, Statuses
    <3>2. toServer' = Written(<<Msg("OK", conn, 0)>>)
      BY <2>1, Zenon DEF RecvEmptyChallenge
    <3> QED
      BY <3>1, <3>2
  <2>2. CASE RecvChallenge
    <3> DEFINE n == sent[conn] + 1
               k == Msg(IF n = Rounds THEN "COMPLETE" ELSE "OK", conn, n)
    <3>1. toServer' = Written(<<k>>)
      BY <2>2, Zenon DEF RecvChallenge
    <3>2. k \in Messages /\ k.n # 1
      BY <1>3 DEF Msg, Messages, Statuses
    <3> HIDE DEF k
    <3> QED
      BY <3>1, <3>2
  <2> QED
    BY <2>1, <2>2
<1>5. PICK s \in Seq(Messages) : s = toServer
  BY DEF IInv, TypeOK, LinksOK
<1>6. PICK t \in Seq(Messages) :
        /\ t = toServer'
        /\ Len(t) = Len(s) \/ Len(t) = Len(s) + 1
        /\ \A i \in 1 .. Len(s) : t[i] = s[i]
        /\ Len(t) = Len(s) + 1 => t[Len(s) + 1] = k
  <2>0. <<k>> \in Seq(Messages) /\ Len(<<k>>) = 1 /\ <<k>>[1] = k
    OBVIOUS
  <2>1. PICK ms \in Seq(Messages) : ms = <<k>> /\ Len(ms) = 1 /\ ms[1] = k
    BY <2>0, Zenon
  <2>2. toServer' = Written(ms) /\ LinksOK /\ Len(ms) > 0
    BY <1>4, <2>1 DEF IInv, TypeOK
  <2>3. /\ Len(toServer') = Len(toServer) \/ Len(toServer') = Len(toServer) + Len(ms)
        /\ \A i \in 1 .. Len(toServer) : toServer'[i] = toServer[i]
        /\ Len(toServer') = Len(toServer) + Len(ms) =>
             \A i \in 1 .. Len(ms) : toServer'[Len(toServer) + i] = ms[i]
        /\ toServer' \in Seq(Messages)
    BY <2>2, WrittenAfter
  <2>4. Len(toServer') = Len(toServer) + 1 => toServer'[Len(toServer) + 1] = k
    BY <2>1, <2>3
  <2> QED
    BY <1>5, <2>1, <2>3, <2>4
<1>7. toClient \in Seq(Messages) /\ Len(toClient) > 0 /\ Len(toClient') = Len(toClient) - 1
  BY <1>1, HeadAndTail DEF IInv, TypeOK, LinksOK
<1>8. spc # "start"
  BY <1>1 DEF LinkInv, UnreadInv
<1>9. FirstTokenInv'
  <2> SUFFICES ASSUME NEW i \in 2 .. Len(t), t[i].n = 1
               PROVE  t[i - 1].status = "START" /\ t[i - 1].ctx = t[i].ctx
    BY <1>6 DEF FirstTokenInv
  <2>1. CASE i \in 2 .. Len(s)
    <3>0. i \in 1 .. Len(s) /\ i - 1 \in 1 .. Len(s)
      BY <2>1
    <3>1. t[i] = s[i] /\ t[i - 1] = s[i - 1]
      BY <1>6, <3>0
    <3> QED
      BY <1>5, <2>1, <3>1 DEF LinkInv, FirstTokenInv
  <2>2. CASE i = Len(s) + 1
    BY <1>4, <1>6, <2>2
  <2> QED
    BY <1>6, <2>1, <2>2
<1>10. t # <<>> => Head(t).n # 1 \/ spc # "step" \/ sprog # 0
  <2> SUFFICES ASSUME t # <<>>, spc = "step", sprog = 0 PROVE Head(t).n # 1
    OBVIOUS
  <2>1. CASE s = <<>>
    <3>1. Len(s) = 0 /\ Len(t) # 0 /\ Head(t) = t[1]
      BY <2>1
    <3> QED
      BY <1>4, <1>6, <3>1
  <2>2. CASE s # <<>>
    <3>1. Len(s) > 0 /\ Head(s) = s[1] /\ Head(t) = t[1]
      BY <2>2
    <3>2. Head(t) = Head(s)
      BY <1>6, <3>1
    <3> QED
      BY <1>1, <1>5, <2>2, <3>2 DEF LinkInv, UnreadInv
  <2> QED
    BY <2>1, <2>2
<1>11. UnreadInv'
  BY <1>1, <1>6, <1>8, <1>10 DEF UnreadInv
<1>12. TurnsInv'
  BY <1>1, <1>2, <1>5, <1>6, <1>7 DEF LinkInv, TurnsInv
<1>13. EarlierInv' /\ NothingLeftOver'
  BY <1>1, <1>2 DEF EarlierInv, NothingLeftOver
<1> QED
  BY <1>9, <1>11, <1>12, <1>13 DEF LinkInv

(* The COMPLETE that lets open() return is the last message on its way.    *)
LEMMA CompleteLeavesNothing ==
    ASSUME IInv, IInv', LinkInv, FinalComplete
    PROVE  LinkInv'
<1> USE BoundsAssumption, RoundsAssumption
<1>1. /\ pc = "final" /\ toClient # <<>> /\ toClient' = Tail(toClient)
      /\ pc' = "idle" /\ outcome' = "ok"
      /\ UNCHANGED <<opens, conn, toServer, spc, sctx, sprog>>
  BY Zenon DEF FinalComplete, Receives, library, server
<1>2. spc = "done" /\ sctx = conn /\ sprog > 0
  BY <1>1 DEF IInv, SecuredAgreement, TokenInv
<1>3. /\ toServer \in Seq(Messages) /\ toClient \in Seq(Messages)
      /\ Len(toServer) + Len(toClient) <= 1
  BY <1>1, <1>2 DEF LinkInv, TurnsInv, Waiting, IInv, TypeOK, LinksOK
<1>4. toServer = <<>> /\ toClient' = <<>>
  <2>1. Len(toClient) > 0 /\ Len(toClient) \in Nat /\ Len(toServer) \in Nat /\ (Len(toClient) = 1 => Tail(toClient) = <<>>)
    BY <1>1, <1>3, HeadAndTail
  <2>2. Len(toServer) = 0 /\ Len(toClient) = 1
    <3>1. Len(toServer) + Len(toClient) <= 1
      BY <1>3
    <3>2. PICK a \in Nat : a = Len(toServer)
      BY <2>1
    <3>3. PICK b \in Nat : b = Len(toClient)
      BY <2>1
    <3>4. a + b <= 1 /\ b > 0
      BY <2>1, <3>1, <3>2, <3>3
    <3>5. a = 0 /\ b = 1
      BY <3>4
    <3> QED
      BY <3>2, <3>3, <3>5
  <2> QED
    BY <1>1, <1>3, <2>1, <2>2, EmptySeq
<1> QED
  BY <1>1, <1>2, <1>4
     DEF LinkInv, EarlierInv, FirstTokenInv, UnreadInv, TurnsInv, NothingLeftOver, Waiting

(* The server takes a message.                                             *)
LEMMA ServedLeavesFirst ==
    ASSUME LinksOK, FirstTokenInv, toServer # <<>>, toServer' = Tail(toServer)
    PROVE  /\ FirstTokenInv'
           /\ toServer' # <<>> /\ Head(toServer').n = 1 =>
                /\ Len(toServer) > 1 /\ Request.status = "START"
                /\ Request.ctx = Head(toServer').ctx
           /\ Len(toServer') = Len(toServer) - 1 /\ Len(toServer) \in Nat
<1>1. PICK s \in Seq(Messages) : s = toServer
  BY DEF LinksOK
<1>2. PICK t \in Seq(Messages) :
        /\ t = toServer' /\ Head(s) = s[1] /\ Len(s) > 0 /\ Len(t) = Len(s) - 1
        /\ \A i \in 1 .. Len(s) - 1 : t[i] = s[i + 1]
        /\ Len(s) > 1 => t # <<>> /\ Head(t) = s[2]
        /\ Len(s) = 1 => t = <<>>
  BY <1>1, HeadAndTail
<1>3. FirstTokenInv'
  <2> SUFFICES ASSUME NEW i \in 2 .. Len(t), t[i].n = 1
               PROVE  t[i - 1].status = "START" /\ t[i - 1].ctx = t[i].ctx
    BY <1>2 DEF FirstTokenInv
  <2>1. t[i] = s[i + 1] /\ t[i - 1] = s[(i + 1) - 1] /\ i + 1 \in 2 .. Len(s)
    <3>1. i \in 1 .. Len(s) - 1 /\ i - 1 \in 1 .. Len(s) - 1 /\ i + 1 \in 2 .. Len(s)
      BY <1>2
    <3>2. (i - 1) + 1 = i /\ (i + 1) - 1 = i
      OBVIOUS
    <3>3. t[i] = s[i + 1] /\ t[i - 1] = s[(i - 1) + 1]
      BY <1>2, <3>1
    <3> QED
      BY <3>1, <3>2, <3>3
  <2> QED
    BY <1>1, <2>1 DEF FirstTokenInv
<1>4. ASSUME t # <<>>, Head(t).n = 1
      PROVE  Len(s) > 1 /\ Head(s).status = "START" /\ Head(s).ctx = Head(t).ctx
  <2>1. Len(s) > 1 /\ Head(t) = s[2] /\ 2 \in 2 .. Len(s) /\ 2 - 1 = 1
    BY <1>2, <1>4
  <2> QED
    BY <1>1, <1>2, <1>4, <2>1 DEF FirstTokenInv
<1> QED
  BY <1>1, <1>2, <1>3, <1>4 DEF Request

LEMMA ServerStartLeavesNothing ==
    ASSUME IInv, LinkInv, ServerStart
    PROVE  LinkInv'
<1>1. /\ spc = "start" /\ spc' = "step" /\ toServer # <<>> /\ toServer' = Tail(toServer)
      /\ UNCHANGED <<pc, outcome, opens, conn, toClient, sctx, sprog>>
  BY Zenon DEF ServerStart, Serves, library
<1>2. /\ FirstTokenInv'
      /\ toServer' # <<>> /\ Head(toServer').n = 1 =>
            /\ Len(toServer) > 1 /\ Request.status = "START"
            /\ Request.ctx = Head(toServer').ctx
      /\ Len(toServer') = Len(toServer) - 1 /\ Len(toServer) \in Nat
  BY <1>1, ServedLeavesFirst DEF LinkInv, IInv, TypeOK
<1>3. toClient = <<>> /\ sprog = 0 /\ outcome # "ok"
  BY <1>1 DEF LinkInv, UnreadInv, IInv, TokenInv, SecuredAgreement
<1>4. UnreadInv'
  BY <1>1, <1>2, <1>3 DEF LinkInv, UnreadInv, Request, Waiting
<1>5. Elems(toServer') \subseteq Elems(toServer)
  BY <1>1, Serving DEF IInv, TypeOK
<1> QED
  BY <1>1, <1>2, <1>3, <1>4, <1>5
     DEF LinkInv, EarlierInv, TurnsInv, NothingLeftOver, Waiting

LEMMA AsksAgainLeavesNothing ==
    ASSUME IInv, LinkInv, ServerAsksAgain
    PROVE  LinkInv'
<1>1. /\ spc = "step" /\ sprog = 0 /\ toServer # <<>> /\ toServer' = Tail(toServer)
      /\ UNCHANGED <<pc, outcome, opens, conn, spc, sctx, sprog>>
      /\ IsResponse(Request)
  BY Zenon DEF ServerAsksAgain, Serves, library, server
<1>2. /\ FirstTokenInv'
      /\ toServer' # <<>> /\ Head(toServer').n = 1 => Request.status = "START"
  BY <1>1, ServedLeavesFirst DEF LinkInv, IInv, TypeOK
<1>3. Request.status # "START" /\ outcome # "ok"
  BY <1>1 DEF IsResponse, IInv, SecuredAgreement
<1>4. UnreadInv'
  BY <1>1, <1>2, <1>3 DEF UnreadInv
<1>5. Elems(toServer') \subseteq Elems(toServer)
  BY <1>1, Serving DEF IInv, TypeOK
<1> QED
  BY <1>1, <1>2, <1>3, <1>4, <1>5
     DEF LinkInv, EarlierInv, TurnsInv, NothingLeftOver, Waiting

(* The server's turn: it takes a message and sends one.  The first token   *)
(* it accepts of a call that waits is all that is on its way.              *)
LEMMA ServerTurnLeavesNothing ==
    ASSUME IInv, LinkInv, ServerAccepts \/ ServerAfterProbe
    PROVE  LinkInv'
<1> USE BoundsAssumption, RoundsAssumption
<1>1. /\ spc = "step" /\ toServer # <<>> /\ toServer' = Tail(toServer)
      /\ UNCHANGED <<pc, outcome, opens, conn>>
  BY Zenon DEF ServerAccepts, ServerAfterProbe, Serves, library
<1>2. FirstTokenInv' /\ Len(toServer') = Len(toServer) - 1 /\ Len(toServer) \in Nat
  BY <1>1, ServedLeavesFirst DEF LinkInv, IInv, TypeOK
<1>3. /\ Request \in Elems(toServer) /\ Request.n \in Nat /\ sprog \in Nat
      /\ Elems(toServer') \subseteq Elems(toServer)
  BY <1>1, Serving, InFlight DEF IInv, TypeOK, ValuesOK
<1>4. /\ sprog' > 0 /\ spc' # "start"
      /\ \/ sprog > 0 /\ sctx' = sctx
         \/ sprog = 0 /\ Request.n = 1 /\ sctx' = Request.ctx
  <2>1. CASE ServerAccepts
    BY <1>3, <2>1 DEF ServerAccepts, Expected
  <2>2. CASE ServerAfterProbe
    BY <2>2 DEF ServerAfterProbe, IInv, TokenInv
  <2> QED
    BY <2>1, <2>2
<1>5. toClient \in Seq(Messages) /\ Len(toClient') = Len(toClient) + 1 /\ Len(toClient) \in Nat
  <2>1. toClient \in Seq(Messages)
    BY DEF IInv, TypeOK, LinksOK
  <2>2. \E m : toClient' = Append(toClient, m)
    BY Zenon DEF ServerAccepts, ServerAfterProbe, Reply
  <2> QED
    BY <2>1, <2>2
<1>6. EarlierInv'
  BY <1>1, <1>3, <1>4 DEF LinkInv, EarlierInv
<1>7. UnreadInv'
  BY <1>4 DEF UnreadInv
<1>8. TurnsInv'
  <2> SUFFICES ASSUME Waiting, sctx' = conn
               PROVE  Len(toServer') + Len(toClient') <= 1
    BY <1>1 DEF TurnsInv, Waiting
  <2>1. Len(toServer) + Len(toClient) <= 1
    <3>1. CASE sprog > 0 /\ sctx' = sctx
      BY <3>1 DEF LinkInv, TurnsInv
    <3>2. CASE sprog = 0 /\ Request.n = 1 /\ sctx' = Request.ctx
      BY <1>1, <1>2, <3>2 DEF LinkInv, UnreadInv, Request
    <3> QED
      BY <1>4, <3>1, <3>2
  <2> QED
    BY <1>2, <1>5, <2>1
<1>9. NothingLeftOver'
  BY <1>1 DEF NothingLeftOver, IInv, SecuredAgreement
<1> QED
  BY <1>2, <1>6, <1>7, <1>8, <1>9 DEF LinkInv

(* The server gives up, or takes what comes for a frame.                   *)
LEMMA ServerEndLeavesNothing ==
    ASSUME IInv, LinkInv, ServerRejects \/ ServerMisreads \/ ServerDies
    PROVE  LinkInv'
<1>1. /\ UNCHANGED <<pc, outcome, opens, conn, sctx, sprog>> /\ toServer' = <<>>
  BY Zenon DEF ServerRejects, ServerMisreads, ServerDies, library, server
<1>2. spc' = "start" => spc = "start"
  BY DEF ServerRejects, ServerMisreads, ServerDies, server
<1>3. toClient \in Seq(Messages) /\ toServer \in Seq(Messages) /\ Elems(<<>>) = {}
  BY DEF IInv, TypeOK, LinksOK, Elems
<1>4. /\ (spc' = "start" \/ outcome = "ok") /\ toClient = <<>> => toClient' = <<>>
      /\ Len(toClient') \in Nat
      /\ Len(toServer) + Len(toClient) <= 1 => Len(toClient') <= 1
  <2>1. CASE ServerRejects
    <3>1. /\ toServer # <<>> /\ spc \in {"start", "step"} /\ spc' = "failed"
          /\ toClient' = toClient \/ \E m : toClient' = Append(toClient, m)
      BY <2>1 DEF ServerRejects
    <3>2. outcome # "ok" /\ Len(toServer) > 0 /\ Len(toClient) \in Nat
      BY <1>3, <3>1, EmptySeq DEF IInv, SecuredAgreement
    <3>3. Len(toClient') = Len(toClient) \/ Len(toClient') = Len(toClient) + 1
      BY <1>3, <3>1
    <3>4. toServer \in Seq(Messages) /\ Len(toServer) \in Nat
      BY <1>3
    <3>5. Len(toClient') \in Nat
      BY <3>2, <3>3
    <3>6. Len(toServer) + Len(toClient) <= 1 => Len(toClient') <= 1
      BY <3>2, <3>3, <3>4
    <3> QED
      BY <3>1, <3>2, <3>5, <3>6
  <2>2. CASE ServerMisreads
    <3>1. toClient' = toClient
      BY <2>2 DEF ServerMisreads
    <3> QED
      BY <1>3, <3>1
  <2>3. CASE ServerDies
    <3>1. PICK k \in 0 .. Len(toClient) : toClient' = SubSeq(toClient, 1, k)
      BY <2>3 DEF ServerDies
    <3>2. Len(toClient') = k /\ Len(toClient) \in Nat /\ toClient' \in Seq(Messages)
      BY <1>3, <3>1
    <3>3. toClient = <<>> => k = 0
      BY <1>3
    <3>4. k = 0 => toClient' = <<>>
      BY <3>2, EmptySeq
    <3> QED
      BY <1>3, <3>2, <3>3, <3>4
  <2> QED
    BY <2>1, <2>2, <2>3
<1>5. UnreadInv'
  BY <1>1, <1>2, <1>4 DEF LinkInv, UnreadInv
<1>6. TurnsInv'
  BY <1>1, <1>4 DEF LinkInv, TurnsInv, Waiting
<1>7. NothingLeftOver'
  BY <1>1, <1>4 DEF LinkInv, NothingLeftOver
<1>8. EarlierInv' /\ FirstTokenInv'
  BY <1>1, <1>3 DEF LinkInv, EarlierInv, FirstTokenInv
<1> QED
  BY <1>5, <1>6, <1>7, <1>8 DEF LinkInv

LEMMA LinkInitial == Init => LinkInv
BY DEF Init, LinkInv, EarlierInv, FirstTokenInv, UnreadInv, TurnsInv, NothingLeftOver, Elems

LEMMA LinkPreserved ==
    ASSUME IInv, IInv', LinkInv, [Next]_vars
    PROVE  LinkInv'
<1>1. CASE OpenConnects \/ Close \/ Destroy
  BY <1>1, ClearsLeaveNothing
<1>2. CASE \/ OpenOnOpenLink \/ OpenRefused \/ SetupSucceeds \/ SetupFails
           \/ StartFails \/ RecvUnexpected \/ RecvFails
           \/ FinalUnexpected \/ EndOfStream \/ ReadTimesOut
  BY <1>2, ThrowLeavesNothing
<1>3. CASE StartFirst \/ StartAgain
  BY <1>3, StartLeavesNothing
<1>4. CASE RecvEmptyChallenge \/ RecvChallenge
  BY <1>4, ReplyLeavesNothing
<1>5. CASE FinalComplete
  BY <1>5, CompleteLeavesNothing
<1>6. CASE ServerStart
  BY <1>6, ServerStartLeavesNothing
<1>7. CASE ServerAsksAgain
  BY <1>7, AsksAgainLeavesNothing
<1>8. CASE ServerAccepts \/ ServerAfterProbe
  BY <1>8, ServerTurnLeavesNothing
<1>9. CASE ServerRejects \/ ServerMisreads \/ ServerDies
  BY <1>9, ServerEndLeavesNothing
<1>10. CASE UNCHANGED vars
  BY <1>10 DEF vars, library, link, server, LinkInv, EarlierInv, FirstTokenInv, UnreadInv,
               TurnsInv, NothingLeftOver, Waiting
<1> QED
  BY <1>1, <1>2, <1>3, <1>4, <1>5, <1>6, <1>7, <1>8, <1>9, <1>10, Zenon
     DEF Next, ClientStep, ServerStep, Finished

(* When open() has returned normally, no message of the negotiation is on  *)
(* its way in either direction, so the first frame of the data phase is    *)
(* read as one (doSaslNegotiation(), TSaslTransport.cpp:73-131).           *)
THEOREM LeavesNothing ==
    ASSUME Rounds >= 2
    PROVE  Spec => []NothingLeftOver
<1>1. Init => LinkInv
  BY LinkInitial
<1>2. IInv /\ IInv' /\ LinkInv /\ [Next]_vars => LinkInv'
  BY LinkPreserved
<1>3. LinkInv => NothingLeftOver
  BY DEF LinkInv
<1> QED
  BY <1>1, <1>2, <1>3, Invariance, PTL DEF Spec
=============================================================================
