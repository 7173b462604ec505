-------------------------- MODULE MutauthTheorems ---------------------------
(***************************************************************************)
(* Proofs about internal/mutauth: of Handshake, for any number of agents,  *)
(* handshakes and calls at a time, and of Heartbeat, for any number of     *)
(* agents and any length of the interval and of the silence that is        *)
(* tolerated.                                                              *)
(***************************************************************************)
EXTENDS Handshake, Heartbeat, TLAPS

\* Whoever answered was the target of the request it was handed.
AnsweredByTarget ==
  \A resp \in answers : resp.responder = resp.target

\* What a call has verified so far.  A call that began late is one of a request
\* whose target is revoked, and gets no further.
Responding(job) == job.late => job.target \in revoked
Answering(job) ==
  /\ ~job.late
  /\ job.responder = job.target /\ job.responder \in registered
Completing(job) ==
  /\ ~job.late
  /\ job.bearer = job.responder /\ job.signature \in answers

Sound(job) ==
  /\ job.step = "initiating" => ~job.late
  /\ job.step = "responding" => Responding(job)
  /\ job.step = "answering" => Answering(job)
  /\ job.step = "completing" => Completing(job)

CallsSound == \A c \in Calls : Sound(call[c])

IInv == TypeOK /\ AnsweredByTarget /\ CallsSound /\ MeantAndAnswered

\* Only one call moves at a time.
LEMMA OthersWait ==
  ASSUME call \in [Calls -> Call], NEW c \in Calls, NEW job \in Call, GoTo(c, job)
  PROVE  /\ call' \in [Calls -> Call]
         /\ call'[c] = job
         /\ \A d \in Calls \ {c} : call'[d] = call[d]
BY DEF GoTo

\* To be idle, and nothing else, is a call's beginning and its end.
LEMMA IdleIsCall == Idle \in Call /\ Sound(Idle) /\ Idle.step = "idle"
BY DEF Idle, Call, Sound

\* What is verified stays so: nobody is taken off the list of the revoked or
\* out of the store, and what is signed is signed.
LEMMA SoundStays ==
  ASSUME registered \subseteq registered', revoked \subseteq revoked',
         answers \subseteq answers'
  PROVE  \A job : Sound(job) => Sound(job)'
BY DEF Sound, Responding, Answering, Completing

\* So a call that moves leaves all calls sound if it is sound itself.
LEMMA CallMoves ==
  ASSUME call \in [Calls -> Call], CallsSound, NEW c \in Calls, NEW job \in Call,
         GoTo(c, job), Sound(job)',
         registered \subseteq registered', revoked \subseteq revoked',
         answers \subseteq answers'
  PROVE  call' \in [Calls -> Call] /\ CallsSound'
<1>1. /\ call' \in [Calls -> Call]
      /\ call'[c] = job /\ \A d \in Calls \ {c} : call'[d] = call[d]
  BY OthersWait
<1>2. ASSUME NEW d \in Calls
      PROVE  Sound(call[d])'
  <2>1. CASE d = c
    BY <1>1, <2>1 DEF Sound, Responding, Answering, Completing
  <2>2. CASE d # c
    <3>1. Sound(call[d])
      BY DEF CallsSound
    <3>2. call'[d] = call[d]
      BY <1>1, <2>2
    <3> QED
      BY <3>1, <3>2 DEF Sound, Responding, Answering, Completing
  <2> QED
    BY <2>1, <2>2
<1> QED
  BY <1>1, <1>2 DEF CallsSound

\* Handshakes begin well: nothing was sent or completed.
LEMMA InitIInv == Init => IInv
<1> SUFFICES ASSUME Init PROVE IInv
  OBVIOUS
<1>1. call \in [Calls -> Call] /\ CallsSound
  BY IdleIsCall DEF Init, CallsSound
<1> QED
  BY <1>1 DEF Init, IInv, TypeOK, AnsweredByTarget, MeantAndAnswered

\* What goes on around the handshakes leaves calls and messages alone.
LEMMA StandingStep ==
  ASSUME IInv, NEW a \in Agents, Register(a) \/ Revoke(a) \/ Bind(a) \/ Unbind(a)
  PROVE  IInv'
<1>1. /\ UNCHANGED <<call, begun, answers, completed>>
      /\ registered \subseteq registered' /\ revoked \subseteq revoked'
  BY DEF Register, Revoke, Bind, Unbind, messages
<1>2. TypeOK'
  <2>1. registered' \subseteq Agents /\ bound' \subseteq Agents /\ revoked' \subseteq registered'
    BY DEF IInv, TypeOK, Register, Revoke, Bind, Unbind
  <2> QED
    BY <1>1, <2>1 DEF IInv, TypeOK
<1>3. CallsSound'
  BY <1>1, SoundStays DEF IInv, CallsSound
<1>4. AnsweredByTarget' /\ MeantAndAnswered'
  BY <1>1 DEF IInv, AnsweredByTarget, MeantAndAnswered
<1> QED
  BY <1>2, <1>3, <1>4 DEF IInv

\* A call that goes on, or ends without effect, only has to be sound.
LEMMA CallStep ==
  ASSUME IInv, NEW c \in Calls, NEW job \in Call, Sound(job), GoTo(c, job),
         UNCHANGED <<standing, messages>>
  PROVE  IInv'
<1>1. UNCHANGED <<registered, revoked, bound, begun, answers, completed>>
  BY DEF standing, messages
<1>2. Sound(job)'
  BY <1>1, SoundStays
<1>3. call' \in [Calls -> Call] /\ CallsSound'
  BY <1>1, <1>2, CallMoves DEF IInv, TypeOK
<1>4. TypeOK' /\ AnsweredByTarget' /\ MeantAndAnswered'
  BY <1>1, <1>3 DEF IInv, TypeOK, AnsweredByTarget, MeantAndAnswered
<1> QED
  BY <1>3, <1>4 DEF IInv

\* InitiateHandshake begins with a verified token.
LEMMA VerifyInitiatorStep ==
  ASSUME IInv, NEW c \in Calls, NEW a \in Agents, NEW b \in Agents,
         VerifyInitiator(c, a, b)
  PROVE  IInv'
<1> DEFINE job == [step |-> "initiating", target |-> b, late |-> a \in revoked]
<1>1. GoTo(c, job) /\ UNCHANGED <<standing, messages>>
  BY DEF VerifyInitiator
<1>2. job \in Call /\ job.step = "initiating"
  BY DEF Call
<1>3. ~job.late
  BY DEF VerifyInitiator, Verified
<1>4. Sound(job)
  BY <1>2, <1>3 DEF Sound
<1> HIDE DEF job
<1> QED
  BY <1>1, <1>2, <1>4, CallStep

\* In a call of RespondToHandshake that began late it is the target that is
\* revoked, for the declared initiator was verified.
LEMMA VerifyRequestStep ==
  ASSUME IInv, NEW c \in Calls, NEW a \in Agents, NEW i \in Agents, NEW b \in Agents,
         NEW req \in begun, VerifyRequest(c, a, i, b, req.nonce)
  PROVE  IInv'
<1> DEFINE job == [step |-> "responding", nonce |-> req.nonce, target |-> b,
                   late |-> {i, b} \cap revoked # {}]
<1>1. GoTo(c, job) /\ UNCHANGED <<standing, messages>>
  BY DEF VerifyRequest, Respond
<1>2. req.nonce \in Nonces
  BY DEF IInv, TypeOK, HandshakeReq
<1>3. job \in Call /\ job.step = "responding"
  BY <1>2 DEF Call
<1>4. job.late => job.target \in revoked
  BY DEF VerifyRequest, Verified
<1>5. Sound(job)
  BY <1>3, <1>4 DEF Sound, Responding
<1> HIDE DEF job
<1> QED
  BY <1>1, <1>3, <1>5, CallStep

\* And so it goes no further: the responder must be the target, and not revoked.
LEMMA VerifyResponderStep ==
  ASSUME IInv, NEW c \in Calls, NEW a \in Agents, VerifyResponder(c, a)
  PROVE  IInv'
<1> DEFINE job == [step |-> "answering", nonce |-> call[c].nonce, responder |-> a,
                   target |-> call[c].target, late |-> call[c].late]
<1>1. GoTo(c, job) /\ UNCHANGED <<standing, messages>>
  BY DEF VerifyResponder
<1>2. call[c] \in Call /\ Sound(call[c]) /\ call[c].step = "responding"
  BY DEF IInv, TypeOK, CallsSound, VerifyResponder, Under
<1>3. /\ call[c].nonce \in Nonces /\ call[c].target \in Agents /\ call[c].late \in BOOLEAN
      /\ call[c].late => call[c].target \in revoked
  BY <1>2 DEF Call, Sound, Responding
<1>4. job \in Call /\ job.step = "answering"
  BY <1>3 DEF Call
<1>5. a \in registered \ revoked /\ a = call[c].target
  BY DEF VerifyResponder, Verified
<1>6. ~job.late /\ job.responder = job.target /\ job.responder \in registered
  BY <1>3, <1>5
<1>7. Sound(job)
  BY <1>4, <1>6 DEF Sound, Answering
<1> HIDE DEF job
<1> QED
  BY <1>1, <1>4, <1>7, CallStep

\* CompleteHandshake begins with the token of the declared responder and a
\* signature that somebody made.
LEMMA VerifyResponseStep ==
  ASSUME IInv, NEW c \in Calls, NEW a \in Agents, NEW b \in Agents,
         NEW req \in begun, NEW resp \in answers, VerifyResponse(c, a, b, req.nonce, resp)
  PROVE  IInv'
<1> DEFINE job == [step |-> "completing", nonce |-> req.nonce, bearer |-> a,
                   responder |-> b, signature |-> resp, late |-> b \in revoked]
<1>1. GoTo(c, job) /\ UNCHANGED <<standing, messages>>
  BY DEF VerifyResponse
<1>2. req.nonce \in Nonces /\ resp \in HandshakeResp
  BY DEF IInv, TypeOK, HandshakeReq
<1>3. job \in Call /\ job.step = "completing"
  BY <1>2 DEF Call
<1>4. ~job.late /\ job.bearer = job.responder /\ job.signature \in answers
  BY DEF VerifyResponse, Verified
<1>5. Sound(job)
  BY <1>3, <1>4 DEF Sound, Completing
<1> HIDE DEF job
<1> QED
  BY <1>1, <1>3, <1>5, CallStep

\* An error leaves nothing behind.
LEMMA RefuseStep ==
  ASSUME IInv, NEW c \in Calls, Refuse(c)
  PROVE  IInv'
BY IdleIsCall, CallStep DEF Refuse

\* A nonce is issued once, so no completion is judged by another request than
\* before.
LEMMA InitiateStep ==
  ASSUME IInv, NEW c \in Calls, NEW nonce \in Nonces, Initiate(c, nonce)
  PROVE  IInv'
<1> DEFINE new == [nonce |-> nonce, target |-> call[c].target]
<1>1. /\ UNCHANGED <<registered, revoked, bound, answers, completed>>
      /\ begun' = begun \cup {new} /\ GoTo(c, Idle)
      /\ call[c].target \in registered
  BY DEF Initiate, standing
<1>2. call' \in [Calls -> Call] /\ CallsSound'
  BY <1>1, CallMoves, IdleIsCall, SoundStays DEF IInv, TypeOK
<1>3. TypeOK'
  BY <1>1, <1>2 DEF IInv, TypeOK, HandshakeReq
<1>4. AnsweredByTarget'
  BY <1>1 DEF IInv, AnsweredByTarget
<1>5. MeantAndAnswered'
  <2>1. ASSUME NEW done \in completed
        PROVE  \E resp \in answers :
                 /\ resp.nonce = done.nonce /\ resp.responder = done.responder
                 /\ \A req \in begun' :
                      req.nonce = done.nonce /\ req.target = resp.target
                        => req.target = done.responder
    <3>1. PICK resp \in answers : resp.nonce = done.nonce /\ resp.responder = done.responder
      BY <2>1 DEF IInv, MeantAndAnswered
    <3>2. resp.responder = resp.target
      BY DEF IInv, AnsweredByTarget
    <3> QED
      BY <3>1, <3>2
  <2> QED
    BY <1>1, <2>1 DEF MeantAndAnswered
<1> QED
  BY <1>2, <1>3, <1>4, <1>5 DEF IInv

\* The responder is the target.
LEMMA AnswerStep ==
  ASSUME IInv, NEW c \in Calls, Answer(c)
  PROVE  IInv'
<1> DEFINE new == [nonce |-> call[c].nonce, responder |-> call[c].responder,
                   target |-> call[c].target]
<1>1. /\ UNCHANGED <<registered, revoked, bound, begun, completed>>
      /\ answers' = answers \cup {new} /\ GoTo(c, Idle)
  BY DEF Answer, standing
<1>2. call[c] \in Call /\ Sound(call[c]) /\ call[c].step = "answering"
  BY DEF IInv, TypeOK, CallsSound, Answer, Under
<1>3. /\ call[c].nonce \in Nonces /\ call[c].target \in Agents /\ call[c].responder \in Agents
      /\ call[c].responder = call[c].target /\ call[c].responder \in registered
  BY <1>2 DEF Call, Sound, Answering
<1>4. call' \in [Calls -> Call] /\ CallsSound'
  BY <1>1, CallMoves, IdleIsCall, SoundStays DEF IInv, TypeOK
<1>5. new \in HandshakeResp /\ new.responder = new.target /\ new.responder \in registered
  BY <1>3 DEF HandshakeResp
<1> HIDE DEF new
<1>6. TypeOK'
  BY <1>1, <1>4, <1>5 DEF IInv, TypeOK
<1>7. AnsweredByTarget'
  BY <1>1, <1>5 DEF IInv, AnsweredByTarget
<1>8. MeantAndAnswered'
  BY <1>1 DEF IInv, MeantAndAnswered
<1> QED
  BY <1>4, <1>6, <1>7, <1>8 DEF IInv

\* The signature ties what is completed to one who answered that nonce.
LEMMA CompleteStep ==
  ASSUME IInv, NEW c \in Calls, Complete(c)
  PROVE  IInv'
<1> DEFINE new == [nonce |-> call[c].nonce, responder |-> call[c].responder]
           resp == call[c].signature
<1>1. /\ UNCHANGED <<registered, revoked, bound, begun, answers>>
      /\ completed' = completed \cup {new} /\ GoTo(c, Idle)
      /\ resp.responder = call[c].bearer /\ resp.nonce = call[c].nonce
  BY DEF Complete, standing, Fits
<1>2. call[c] \in Call /\ Sound(call[c]) /\ call[c].step = "completing"
  BY DEF IInv, TypeOK, CallsSound, Complete, Under
<1>3. /\ call[c].nonce \in Nonces /\ call[c].responder \in Agents
      /\ call[c].bearer = call[c].responder /\ resp \in answers
  BY <1>2 DEF Call, Sound, Completing
<1>4. call' \in [Calls -> Call] /\ CallsSound'
  BY <1>1, CallMoves, IdleIsCall, SoundStays DEF IInv, TypeOK
<1>5. TypeOK' /\ AnsweredByTarget'
  BY <1>1, <1>3, <1>4 DEF IInv, TypeOK, AnsweredByTarget
<1>6. resp.nonce = new.nonce /\ resp.responder = new.responder /\ resp.responder = resp.target
  BY <1>1, <1>3 DEF IInv, AnsweredByTarget
<1>7. MeantAndAnswered'
  <2> HIDE DEF new, resp
  <2>1. \E r \in answers :
          /\ r.nonce = new.nonce /\ r.responder = new.responder
          /\ \A req \in begun :
               req.nonce = new.nonce /\ req.target = r.target => req.target = new.responder
    BY <1>3, <1>6
  <2> QED
    BY <1>1, <2>1 DEF IInv, MeantAndAnswered
<1> QED
  BY <1>4, <1>5, <1>7 DEF IInv

\* Every step keeps the invariant.
LEMMA NextIInv == IInv /\ [Next]_vars => IInv'
<1> SUFFICES ASSUME IInv, [Next]_vars PROVE IInv'
  OBVIOUS
<1>1. CASE UNCHANGED vars
  BY <1>1 DEF IInv, TypeOK, AnsweredByTarget, CallsSound, Sound, Responding, Answering,
              Completing, MeantAndAnswered, vars, standing, messages
<1>2. CASE Next
  BY <1>2, StandingStep, VerifyInitiatorStep, InitiateStep, VerifyRequestStep,
     VerifyResponderStep, AnswerStep, VerifyResponseStep, CompleteStep, RefuseStep DEF Next
<1> QED
  BY <1>1, <1>2

\* A handshake completes only with an agent that answered it, and with the one
\* that was meant unless the target was altered on the way: MutAuthHdl,
\* whatever fields of messages are altered, and however calls interleave.
THEOREM MeantTheorem == Spec => []MeantAndAnswered
<1>1. IInv => MeantAndAnswered
  BY DEF IInv
<1> QED
  BY <1>1, InitIInv, NextIInv, PTL DEF Spec

\* Requests and answers are between registered agents.
THEOREM HandshakeTypeCorrect == Spec => []TypeOK
<1>1. IInv => TypeOK
  BY DEF IInv
<1> QED
  BY <1>1, InitIInv, NextIInv, PTL DEF Spec

\* A call that ends and began late was a response to a request, and ends in
\* an error.
LEMMA DropsOutStep ==
  ASSUME IInv, Next, NEW c \in Calls, ~Under(c, "idle"), call[c].late, call'[c] = Idle
  PROVE  UNCHANGED messages
<1>1. call \in [Calls -> Call] /\ Sound(call[c])
  BY DEF IInv, TypeOK, CallsSound
<1>2. call[c].step \notin {"initiating", "answering", "completing"}
  BY <1>1 DEF Sound, Answering, Completing
<1>3. call'[c] # call[c]
  BY DEF Under, Idle
<1>4. ASSUME NEW d \in Calls, GoTo(d, Idle)
      PROVE  d = c
  BY <1>1, <1>3, <1>4 DEF GoTo
<1>5. ASSUME NEW d \in Calls, NEW nonce \in Nonces, Initiate(d, nonce)
      PROVE  FALSE
  BY <1>2, <1>4, <1>5 DEF Initiate, Under
<1>6. ASSUME NEW d \in Calls, Answer(d) \/ Complete(d)
      PROVE  FALSE
  BY <1>2, <1>4, <1>6 DEF Answer, Complete, Under
<1> QED
  BY <1>5, <1>6 DEF Next, Register, Revoke, Bind, Unbind, VerifyInitiator, VerifyRequest,
                    Respond, VerifyResponder, VerifyResponse, Refuse

\* No call that began when an agent it names was revoked has any effect:
\* RespondToHandshake and CompleteHandshake verify anew, and compare.
THEOREM DropsOutTheorem == Spec => RevokedDropsOut
<1>1. IInv /\ [Next]_vars =>
        [\A c \in Calls :
           ~Under(c, "idle") /\ call[c].late /\ call'[c] = Idle => UNCHANGED messages]_vars
  BY DropsOutStep
<1> QED
  BY <1>1, InitIInv, NextIInv, PTL DEF Spec, RevokedDropsOut
-----------------------------------------------------------------------------
(* The heartbeat monitor. *)

\* What was counted and what is being measured was silence.
Accounted(a) == silence[a] = Long \/ missed[a] * Interval + age[a] <= silence[a]

MonitorInv == MonitorTypeOK /\ \A a \in Agents : Accounted(a)

LEMMA WholeIntervals ==
  ASSUME NEW n \in Nat, NEW d \in Nat \ {0}
  PROVE  n \div d \in Nat /\ (n \div d) * d <= n
OBVIOUS

LEMMA MoreIntervals ==
  ASSUME NEW m \in Nat, NEW n \in Nat, NEW d \in Nat \ {0}, m <= n
  PROVE  m \div d <= n \div d
OBVIOUS

LEMMA TimesMonotone ==
  ASSUME NEW m \in Nat, NEW n \in Nat, NEW d \in Nat, m <= n
  PROVE  m * d \in Nat /\ n * d \in Nat /\ m * d <= n * d
OBVIOUS

LEMMA SumTimes ==
  ASSUME NEW m \in Nat, NEW n \in Nat, NEW d \in Nat
  PROVE  (m + n) * d = m * d + n * d
OBVIOUS

\* A count that has reached the cap stays there as the measured part grows.
LEMMA StaysAtCap ==
  ASSUME NEW m \in Nat, NEW b \in Nat, NEW c \in Nat, NEW cap \in Nat, b <= c,
         (IF m + b > cap THEN cap ELSE m + b) = cap
  PROVE  (IF m + c > cap THEN cap ELSE m + c) = cap
OBVIOUS

LEMMA LongIsNat == Long \in Nat
BY TimesMonotone, HeartbeatAssumption DEF Long

LEMMA MonitorStarts == MonitorInit => MonitorInv
<1> SUFFICES ASSUME MonitorInit PROVE MonitorInv
  OBVIOUS
<1>1. \A a \in Agents : Accounted(a)
  BY HeartbeatAssumption DEF Accounted, MonitorInit
<1>2. Long \in Nat /\ 0 \in 0..Long /\ 0 \in 0..MaxMiss /\ 0 \in 0..(Interval - 1)
  BY LongIsNat, HeartbeatAssumption
<1>3. MonitorTypeOK
  BY <1>2 DEF MonitorInit, MonitorTypeOK
<1> QED
  BY <1>1, <1>3 DEF MonitorInv

\* An agent's whole intervals, those counted before included, fit into its
\* silence.
LEMMA CountedFits ==
  ASSUME MonitorInv, NEW a \in Agents
  PROVE  /\ Counted(a) \in 0..MaxMiss
         /\ missed[a] <= Counted(a)
         /\ silence[a] = Long \/ Counted(a) * Interval <= silence[a]
         /\ Counted(a) >= MaxMiss => silence[a] >= Long
<1> DEFINE whole == age[a] \div Interval
           all == missed[a] + whole
           counted == Counted(a)
<1>1. /\ missed[a] \in 0..MaxMiss /\ age[a] \in Nat /\ silence[a] \in 0..Long
      /\ Interval \in Nat \ {0} /\ MaxMiss \in Nat /\ Long \in Nat
  BY LongIsNat, HeartbeatAssumption DEF MonitorInv, MonitorTypeOK
<1>2. whole \in Nat /\ whole * Interval <= age[a]
  BY <1>1, WholeIntervals
<1>3. counted = IF all > MaxMiss THEN MaxMiss ELSE all
  BY DEF Counted, UpTo
<1> HIDE DEF whole, counted
<1>4. counted \in 0..MaxMiss /\ missed[a] <= counted /\ counted <= all /\ all \in Nat
  BY <1>1, <1>2, <1>3
<1>5. /\ missed[a] * Interval \in Nat /\ whole * Interval \in Nat
      /\ all * Interval = missed[a] * Interval + whole * Interval
  BY <1>1, <1>2, SumTimes, TimesMonotone
<1>6. counted * Interval \in Nat /\ counted * Interval <= all * Interval
  BY <1>1, <1>4, TimesMonotone
<1>7. silence[a] = Long \/ counted * Interval <= silence[a]
  <2>1. silence[a] = Long \/ missed[a] * Interval + age[a] <= silence[a]
    BY DEF MonitorInv, Accounted
  <2> QED
    BY <1>1, <1>2, <1>5, <1>6, <2>1
<1>8. ASSUME counted >= MaxMiss PROVE silence[a] >= Long
  <2>1. counted * Interval = Long
    BY <1>1, <1>4, <1>8 DEF Long
  <2> QED
    BY <1>1, <1>7, <2>1
<1> QED
  BY <1>4, <1>7, <1>8 DEF counted

LEMMA TickKeeps == ASSUME MonitorInv, Tick PROVE MonitorInv'
<1>1. Long \in Nat /\ Interval \in Nat \ {0} /\ clock \in Nat
  BY LongIsNat, HeartbeatAssumption DEF MonitorInv, MonitorTypeOK
<1>2. MonitorTypeOK'
  <2>1. (clock + 1) % Interval \in 0..(Interval - 1)
    BY <1>1
  <2>2. /\ age' \in [Agents -> 0..Long] /\ silence' \in [Agents -> 0..Long]
    BY <1>1 DEF MonitorInv, MonitorTypeOK, Tick, UpTo
  <2> QED
    BY <2>1, <2>2 DEF MonitorInv, MonitorTypeOK, Tick, Long
<1>3. ASSUME NEW a \in Agents PROVE Accounted(a)'
  <2>1. /\ age[a] \in Nat /\ silence[a] \in 0..Long /\ missed[a] \in Nat
        /\ age'[a] <= age[a] + 1 /\ age'[a] \in Nat
        /\ silence'[a] = IF silence[a] + 1 > Long THEN Long ELSE silence[a] + 1
        /\ missed' = missed
    BY <1>1 DEF MonitorInv, MonitorTypeOK, Tick, UpTo
  <2>2. missed[a] * Interval \in Nat
    BY <1>1, <2>1, TimesMonotone
  <2>3. silence[a] = Long \/ missed[a] * Interval + age[a] <= silence[a]
    BY DEF MonitorInv, Accounted
  <2>4. silence'[a] = Long \/ missed[a] * Interval + age'[a] <= silence'[a]
    BY <1>1, <2>1, <2>2, <2>3
  <2> QED
    BY <2>1, <2>4 DEF Accounted, Long
<1> QED
  BY <1>2, <1>3 DEF MonitorInv

LEMMA HeartbeatKeeps ==
  ASSUME MonitorInv, NEW b \in Agents, RecordHeartbeat(b)
  PROVE  MonitorInv'
<1>1. MonitorTypeOK'
  BY LongIsNat, HeartbeatAssumption DEF MonitorInv, MonitorTypeOK, RecordHeartbeat, timer, Long
<1>2. ASSUME NEW a \in Agents PROVE Accounted(a)'
  <2>1. CASE a = b
    <3>1. missed'[a] = 0 /\ age'[a] = 0 /\ silence'[a] = 0
      BY <2>1 DEF MonitorInv, MonitorTypeOK, RecordHeartbeat
    <3>2. 0 * Interval + 0 <= 0
      BY HeartbeatAssumption
    <3> QED
      BY <3>1, <3>2 DEF Accounted
  <2>2. CASE a # b
    BY <2>2 DEF MonitorInv, MonitorTypeOK, RecordHeartbeat, Accounted, Long
  <2> QED
    BY <2>1, <2>2
<1> QED
  BY <1>1, <1>2 DEF MonitorInv

LEMMA SweepKeeps == ASSUME MonitorInv, Sweep PROVE MonitorInv'
<1>1. Late \subseteq tracked
  BY DEF Late
<1>2. \A a \in Agents : Counted(a) \in 0..MaxMiss
  BY CountedFits
<1>3. MonitorTypeOK'
  <2>1. Long \in Nat
    BY LongIsNat
  <2>2. missed' \in [Agents -> 0..MaxMiss] /\ age' \in [Agents -> 0..Long]
    BY <1>2, <2>1 DEF MonitorInv, MonitorTypeOK, Sweep
  <2> QED
    BY <1>1, <2>2 DEF MonitorInv, MonitorTypeOK, Sweep, Long
<1>4. ASSUME NEW a \in Agents PROVE Accounted(a)'
  <2>1. silence' = silence /\ Long \in Nat /\ silence[a] \in Nat
    BY LongIsNat DEF Sweep, MonitorInv, MonitorTypeOK
  <2>2. CASE a \in Late
    <3>1. missed'[a] = Counted(a) /\ age'[a] = 0
      BY <2>2 DEF Sweep
    <3>2. silence[a] = Long \/ Counted(a) * Interval <= silence[a]
      BY CountedFits
    <3>3. Counted(a) * Interval + 0 = Counted(a) * Interval
      <4>1. Counted(a) \in Nat /\ Interval \in Nat
        BY <1>2, HeartbeatAssumption
      <4>2. Counted(a) * Interval \in Nat
        BY <4>1, TimesMonotone
      <4> QED
        BY <4>2
    <3> QED
      BY <2>1, <3>1, <3>2, <3>3 DEF Accounted, Long
  <2>3. CASE a \notin Late
    BY <2>1, <2>3 DEF Sweep, MonitorInv, Accounted, Long
  <2> QED
    BY <2>2, <2>3
<1> QED
  BY <1>3, <1>4 DEF MonitorInv

LEMMA MonitorKeeps ==
  ASSUME MonitorInv, [MonitorNext]_monitorVars PROVE MonitorInv'
<1>1. CASE StopMonitor
  BY <1>1 DEF MonitorInv, MonitorTypeOK, StopMonitor, Accounted, Long
<1>2. CASE UNCHANGED monitorVars
  BY <1>2 DEF MonitorInv, MonitorTypeOK, monitorVars, timer, Accounted, Long
<1> QED
  BY <1>1, <1>2, TickKeeps, HeartbeatKeeps, SweepKeeps DEF MonitorNext

\* The monitor revokes only for a silence of maxMiss whole intervals.
LEMMA RevokesTheSilent ==
  ASSUME MonitorInv, MonitorNext
  PROVE  \A a \in revoked' \ revoked : silence[a] >= Long
<1>1. CASE Sweep
  <2> SUFFICES ASSUME NEW a \in revoked' \ revoked PROVE silence[a] >= Long
    OBVIOUS
  <2>1. a \in Agents /\ Counted(a) >= MaxMiss
    BY <1>1 DEF Sweep, Late, MonitorInv, MonitorTypeOK
  <2> QED
    BY <2>1, CountedFits
<1>2. CASE ~Sweep
  BY <1>2 DEF MonitorNext, Tick, RecordHeartbeat, StopMonitor
<1> QED
  BY <1>1, <1>2

\* No step but a heartbeat brings an agent back to life.
LEMMA StaysDead ==
  ASSUME MonitorInv, MonitorNext, NEW a \in tracked,
         ~Alive(a), Alive(a)'
  PROVE  silence'[a] = 0
<1>1. /\ a \in Agents /\ missed[a] \in 0..MaxMiss /\ age[a] \in 0..Long
      /\ Interval \in Nat \ {0} /\ MaxMiss \in Nat /\ Long \in Nat
  BY LongIsNat, HeartbeatAssumption DEF MonitorInv, MonitorTypeOK
<1>2. Counted(a) = MaxMiss
  BY <1>1, CountedFits DEF Alive
<1>3. CASE Tick
  <2>1. missed' = missed /\ age'[a] \in Nat /\ age[a] <= age'[a]
    BY <1>1, <1>3 DEF Tick, UpTo
  <2> DEFINE before == age[a] \div Interval  after == age'[a] \div Interval
  <2>2. before \in Nat /\ after \in Nat /\ before <= after
    BY <1>1, <2>1, WholeIntervals, MoreIntervals
  <2>3. /\ Counted(a) = IF missed[a] + before > MaxMiss THEN MaxMiss ELSE missed[a] + before
        /\ Counted(a)' = IF missed[a] + after > MaxMiss THEN MaxMiss ELSE missed[a] + after
    BY <2>1 DEF Counted, UpTo
  <2> HIDE DEF before, after
  <2>4. Counted(a)' = MaxMiss
    <3>1. missed[a] \in Nat
      BY <1>1
    <3>2. (IF missed[a] + before > MaxMiss THEN MaxMiss ELSE missed[a] + before) = MaxMiss
      BY <1>2, <2>3
    <3>3. (IF missed[a] + after > MaxMiss THEN MaxMiss ELSE missed[a] + after) = MaxMiss
      BY <1>1, <2>2, <3>1, <3>2, StaysAtCap
    <3> QED
      BY <2>3, <3>3
  <2> QED
    BY <1>1, <2>4 DEF Alive
<1>4. ASSUME NEW b \in Agents, RecordHeartbeat(b) PROVE silence'[a] = 0
  <2>1. CASE a = b
    BY <1>1, <1>4, <2>1 DEF RecordHeartbeat, MonitorInv, MonitorTypeOK
  <2>2. CASE a # b
    <3>1. missed'[a] = missed[a] /\ age'[a] = age[a]
      BY <1>1, <1>4, <2>2 DEF RecordHeartbeat, MonitorInv, MonitorTypeOK
    <3>2. Counted(a)' = Counted(a)
      BY <3>1 DEF Counted, UpTo
    <3> QED
      BY <1>1, <1>2, <3>2 DEF Alive
  <2> QED
    BY <2>1, <2>2
<1>5. CASE Sweep
  <2>1. CASE a \in Late
    <3>1. missed'[a] = MaxMiss /\ age'[a] = 0
      BY <1>1, <1>2, <1>5, <2>1 DEF Sweep
    <3>2. 0 \div Interval \in Nat
      BY <1>1, WholeIntervals
    <3>3. Counted(a)' = MaxMiss
      BY <1>1, <3>1, <3>2 DEF Counted, UpTo
    <3> QED
      BY <1>1, <3>3 DEF Alive
  <2>2. CASE a \notin Late
    <3>1. missed'[a] = missed[a] /\ age'[a] = age[a]
      BY <1>1, <1>5, <2>2 DEF Sweep
    <3>2. Counted(a)' = Counted(a)
      BY <3>1 DEF Counted, UpTo
    <3> QED
      BY <1>1, <1>2, <3>2 DEF Alive
  <2> QED
    BY <2>1, <2>2
<1>6. CASE StopMonitor
  <2>1. Counted(a)' = Counted(a)
    BY <1>6 DEF StopMonitor, Counted, UpTo
  <2> QED
    BY <1>1, <1>2, <2>1 DEF Alive
<1> QED
  BY <1>3, <1>4, <1>5, <1>6 DEF MonitorNext

\* The manager's records stay well typed, for every MaxMiss and interval.
THEOREM MonitorTypeCorrect == MonitorSpec => []MonitorTypeOK
<1>1. MonitorInv => MonitorTypeOK
  BY DEF MonitorInv
<1>2. MonitorInv /\ [MonitorNext]_monitorVars => MonitorInv'
  BY MonitorKeeps
<1>3. MonitorInit => MonitorInv
  BY MonitorStarts
<1> QED
  BY <1>1, <1>2, <1>3, PTL DEF MonitorSpec

\* No false alarm: the sweep revokes an agent only after a silence of maxMiss
\* whole intervals, however late or bunched the sweeps are.
THEOREM SilenceTheorem == MonitorSpec => RevokedAfterSilence
<1>1. MonitorInv /\ [MonitorNext]_monitorVars
        => [\A a \in revoked' \ revoked : silence[a] >= Long]_monitorVars
  BY RevokesTheSilent
<1>2. MonitorInv /\ [MonitorNext]_monitorVars => MonitorInv'
  BY MonitorKeeps
<1>3. MonitorInit => MonitorInv
  BY MonitorStarts
<1> QED
  BY <1>1, <1>2, <1>3, PTL DEF MonitorSpec, RevokedAfterSilence

\* An agent that CheckLiveness has given up on looks alive again only after a
\* heartbeat.
THEOREM DeadTheorem == MonitorSpec => DeadUntilHeartbeat
<1>1. MonitorInv /\ [MonitorNext]_monitorVars
        => [\A a \in tracked : ~Alive(a) /\ Alive(a)' => silence'[a] = 0]_monitorVars
  BY StaysDead
<1>2. MonitorInv /\ [MonitorNext]_monitorVars => MonitorInv'
  BY MonitorKeeps
<1>3. MonitorInit => MonitorInv
  BY MonitorStarts
<1> QED
  BY <1>1, <1>2, <1>3, PTL DEF MonitorSpec, DeadUntilHeartbeat
=============================================================================
