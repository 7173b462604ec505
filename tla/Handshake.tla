----------------------------- MODULE Handshake ------------------------------
(***************************************************************************)
(* MutAuthHdl (internal/mutauth/mut_auth_hdl.go) with a DiscoveryRegistry: *)
(* one agent initiates a handshake with another, the other responds, and   *)
(* the initiator completes it.                                             *)
(*                                                                         *)
(* HandshakeReq and HandshakeResp are plain structs that travel between    *)
(* agents, and any of their fields may be another when they arrive.  So a  *)
(* handler is handed any combination of a token, a declared identity and a *)
(* target, some nonce that was issued, and some signature that was made;   *)
(* messages that are delayed, repeated or mixed up are among them.  What   *)
(* cannot be had is a signature that the agent of the key did not make.    *)
(* The counter-nonce is left out: no code reads it.                        *)
(*                                                                         *)
(* A handler holds no lock from one token it verifies to the next, nor     *)
(* from there to its answer, so a call is a process.                       *)
(*                                                                         *)
(*   idle -> initiating -> idle                                            *)
(*   idle -> responding -> answering -> idle                               *)
(*   idle -> completing -> idle                                            *)
(***************************************************************************)
EXTENDS Integers, FiniteSets, Roster

CONSTANTS
  Nonces,     \* bound: handshakes ever initiated
  Calls,      \* bound: calls under way at a time
  MaxAnswers, \* bound: answers ever given
  Discovery   \* whether the handler was given a discovery registry

ASSUME HandshakeAssumption == Discovery \in BOOLEAN

VARIABLES
  registered,  \* agents with a record, and a public key, in the store
  bound,       \* agents the discovery registry binds to an endpoint
  call,        \* of each call: how far it has got, and what it works on
  begun,       \* nonces issued, each with the target its initiator meant
  answers,     \* signatures made, each with the target the request named
  completed    \* history: nonce and declared responder of each completion

standing == <<registered, revoked, bound>>
messages == <<begun, answers, completed>>
vars == <<standing, call, messages>>

HandshakeReq == [nonce : Nonces, target : Agents]

\* The nonce, signed with the key that the responder registered.  One signed
\* with a key that nobody registered completes nothing, and is not kept.
HandshakeResp == [nonce : Nonces, responder : Agents, target : Agents]

\* late is history: when the call began, an agent that it names was revoked.
Call ==
  [step : {"idle"}]
    \cup [step : {"initiating"}, target : Agents, late : BOOLEAN]
    \cup [step : {"responding"}, nonce : Nonces, target : Agents, late : BOOLEAN]
    \cup [step : {"answering"}, nonce : Nonces, responder : Agents, target : Agents,
          late : BOOLEAN]
    \cup [step : {"completing"}, nonce : Nonces, bearer : Agents, responder : Agents,
          signature : HandshakeResp, late : BOOLEAN]

Idle == [step |-> "idle"]

Init ==
  /\ registered = {} /\ revoked = {} /\ bound = {}
  /\ call = [c \in Calls |-> Idle]
  /\ begun = {} /\ answers = {} /\ completed = {}
-----------------------------------------------------------------------------
(* What goes on around the handshakes. *)

Register(a) ==
  /\ registered' = registered \cup {a}
  /\ UNCHANGED <<revoked, bound, call, messages>>

\* To Verify, a token that has expired is as good as a revoked one.
Revoke(a) ==
  /\ a \in registered
  /\ revoked' = revoked \cup {a}
  /\ UNCHANGED <<registered, bound, call, messages>>

Bind(a) ==
  /\ bound' = bound \cup {a}
  /\ UNCHANGED <<registered, revoked, call, messages>>

Unbind(a) ==
  /\ bound' = bound \ {a}
  /\ UNCHANGED <<registered, revoked, call, messages>>

\* TknSvc.Verify for the token of an agent, with the GetAgent that follows it:
\* an agent has its record before its token, and keeps it.
Verified(a) == a \in registered \ revoked

VerifyBinding(a) == a \in bound
-----------------------------------------------------------------------------
(* Calls. *)

GoTo(c, job) == call' = [call EXCEPT ![c] = job]

Under(c, step) == call[c].step = step

\* InitiateHandshake: the initiator's token.
VerifyInitiator(c, token, target) ==
  /\ Under(c, "idle")
  /\ Verified(token)
  /\ GoTo(c, [step |-> "initiating", target |-> target, late |-> token \in revoked])
  /\ UNCHANGED <<standing, messages>>

\* A mutant: the target is not looked up.
InitiateWithUnknown(c, nonce) ==
  /\ Under(c, "initiating")
  /\ \A req \in begun : req.nonce # nonce
  /\ begun' = begun \cup {[nonce |-> nonce, target |-> call[c].target]}
  /\ GoTo(c, Idle)
  /\ UNCHANGED <<standing, answers, completed>>

\* A nonce is 16 random bytes: no two handshakes have the same.
Initiate(c, nonce) ==
  /\ Under(c, "initiating") /\ call[c].target \in registered
  /\ \A req \in begun : req.nonce # nonce
  /\ begun' = begun \cup {[nonce |-> nonce, target |-> call[c].target]}
  /\ GoTo(c, Idle)
  /\ UNCHANGED <<standing, answers, completed>>

Respond(c, initiator, target, nonce) ==
  /\ GoTo(c, [step |-> "responding", nonce |-> nonce, target |-> target,
              late |-> {initiator, target} \cap revoked # {}])
  /\ UNCHANGED <<standing, messages>>

\* A mutant: the identity that the request declares is believed.
RespondToDeclared(c, token, initiator, target, nonce) ==
  /\ Under(c, "idle")
  /\ Verified(token)
  /\ Respond(c, initiator, target, nonce)

\* RespondToHandshake: the initiator's token, and who it says it is.
VerifyRequest(c, token, initiator, target, nonce) ==
  /\ Under(c, "idle")
  /\ Verified(token) /\ token = initiator
  /\ Respond(c, initiator, target, nonce)

\* The responder's own token, which must be that of the target.
VerifyResponder(c, responder) ==
  /\ Under(c, "responding")
  /\ Verified(responder) /\ responder = call[c].target
  /\ GoTo(c, [step |-> "answering", nonce |-> call[c].nonce, responder |-> responder,
              target |-> call[c].target, late |-> call[c].late])
  /\ UNCHANGED <<standing, messages>>

\* The responder signs with its own key.
Answer(c) ==
  /\ Under(c, "answering")
  /\ Discovery => VerifyBinding(call[c].target)
  /\ Cardinality(answers) < MaxAnswers
  /\ answers' = answers \cup {[nonce |-> call[c].nonce, responder |-> call[c].responder,
                               target |-> call[c].target]}
  /\ GoTo(c, Idle)
  /\ UNCHANGED <<standing, begun, completed>>

\* CompleteHandshake: the responder's token, and who it says it is.
VerifyResponse(c, token, responder, nonce, signature) ==
  /\ Under(c, "idle")
  /\ Verified(token) /\ token = responder
  /\ GoTo(c, [step |-> "completing", nonce |-> nonce, bearer |-> token,
              responder |-> responder, signature |-> signature,
              late |-> responder \in revoked])
  /\ UNCHANGED <<standing, messages>>

\* A mutant of Fits: the nonce is taken from the response.
FitsItself(job) == job.signature.responder = job.bearer

\* ed25519.Verify, under the key that the bearer of the token registered.
Fits(job) ==
  job.signature.responder = job.bearer /\ job.signature.nonce = job.nonce

\* What the handler is given names no target: the signature must tell.
Complete(c) ==
  /\ Under(c, "completing") /\ Fits(call[c])
  /\ completed' = completed \cup {[nonce |-> call[c].nonce, responder |-> call[c].responder]}
  /\ GoTo(c, Idle)
  /\ UNCHANGED <<standing, begun, answers>>

\* A check fails, or there is no randomness for a nonce: the call returns an
\* error.
Refuse(c) ==
  /\ ~Under(c, "idle")
  /\ Under(c, "completing") => ~Fits(call[c])
  /\ GoTo(c, Idle)
  /\ UNCHANGED <<standing, messages>>

Next ==
  \/ \E a \in Agents : Register(a) \/ Revoke(a) \/ Bind(a) \/ Unbind(a)
  \/ \E c \in Calls :
       \/ \E a, b \in Agents : VerifyInitiator(c, a, b)
       \/ \E nonce \in Nonces : Initiate(c, nonce)
       \/ \E req \in begun, a, i, b \in Agents : VerifyRequest(c, a, i, b, req.nonce)
       \/ \E b \in Agents : VerifyResponder(c, b)
       \/ Answer(c)
       \/ \E req \in begun, resp \in answers, a, b \in Agents :
            VerifyResponse(c, a, b, req.nonce, resp)
       \/ Complete(c)
       \/ Refuse(c)

Spec == Init /\ [][Next]_vars
-----------------------------------------------------------------------------
\* The state is well typed; whoever is revoked, was to be reached or answered
\* is registered.
TypeOK ==
  /\ registered \subseteq Agents /\ bound \subseteq Agents /\ revoked \subseteq registered
  /\ call \in [Calls -> Call]
  /\ begun \subseteq HandshakeReq /\ answers \subseteq HandshakeResp
  /\ \A req \in begun : req.target \in registered
  /\ \A resp \in answers : resp.responder \in registered
  /\ completed \subseteq [nonce : Nonces, responder : Agents]

\* A handshake completes only with an agent that itself answered this very
\* handshake with its registered key, and unless the request named another
\* target when it reached that agent, the agent is the one the initiator
\* meant: "prevents peer substitution" (mut_auth_hdl.go:157), of messages that
\* arrive as they were sent, although CompleteHandshake is never told who was
\* meant and tokens and identities in the response may be anybody's.
MeantAndAnswered ==
  \A done \in completed :
    \E resp \in answers :
      /\ resp.nonce = done.nonce /\ resp.responder = done.responder
      /\ \A req \in begun :
           req.nonce = done.nonce /\ req.target = resp.target => req.target = done.responder

\* No call that began when an agent that it names was revoked, the declared
\* initiator, the target or the declared responder, has any effect: whatever
\* the tokens that come with those names, and whatever was verified in earlier
\* calls.  (An agent that is revoked while a call is under way may still be
\* answered: nothing is verified twice in one call.)
RevokedDropsOut ==
  [][\A c \in Calls :
       ~Under(c, "idle") /\ call[c].late /\ call'[c] = Idle => UNCHANGED messages]_vars

\* What mut_auth_hdl.go:157 says and the code does not provide: nothing that
\* is signed or compared at the end binds the target of the request.
PeerSubstitutionPrevented ==
  \A done \in completed, req \in begun :
    req.nonce = done.nonce => req.target = done.responder
=============================================================================
